---- MODULE Spec2Model ----
(***************************************************************************)
(* SmartGrid Select & Copy (userscript): the selection engine, the         *)
(* throttled render pipeline and the input layer of the v2.0.0 script      *)
(* (src/scripts/smartgrid.user.js, lines 48-1069), as a state machine.     *)
(*                                                                         *)
(* Representation.                                                         *)
(*  - A coordinate key "r|c" (Utils.createKey) is the pair <<r, c>>.       *)
(*  - A JavaScript Set (selection, paintQueue, unpaintQueue) is a          *)
(*    duplicate-free sequence in insertion order, which is the order       *)
(*    forEach, Array.from and for..of visit it in.                         *)
(*  - The page is a fixed document of two tables.  A cell element is       *)
(*    <<t, r, c>> (table, row in the table, position in the row), a row    *)
(*    element is <<t, r>>, a jQuery object that matched nothing is Absent. *)
(*  - Time is counted in ticks.  A throttled function keeps                *)
(*    Date.now() - lastCall (saturated at the largest interval it is       *)
(*    compared with) and the remaining delay of each timer it has set.     *)
(***************************************************************************)
EXTENDS Integers, Sequences, FiniteSets, TLC

(***************************************************************************)
(* Sizes.  The script's limits are scaled down so that every limit is      *)
(* reached by short gestures on a small page; the source values are named. *)
(***************************************************************************)
\* CONFIG.maxSelectionSize (2500 in the source)
maxSelectionSize == 4
\* CONFIG.maxPaintCells (500 in the source)
maxPaintCells == 2
\* the cap of calculateStats (500 in the source)
statsCap == 2
\* ErrorHandler.maxErrors (5 in the source)
maxErrors == 1
\* the interval of the mouse-move throttle, in ticks (50 ms in the source)
mouseMoveMs == 1
\* CONFIG.paintThrottleMs, the interval of batchPaint, in ticks (200 ms)
paintThrottleMs == 2
\* the interval of updateStats, in ticks (200 ms)
statsThrottleMs == 2
\* frame drops after which Performance.measure trips the circuit breaker
frameDropLimit == 3
\* input events in one behaviour of the input layer
MaxEvents == 3
\* calls in one behaviour of the programming interface
MaxCalls == 4
\* calls and events in one behaviour of the throttled functions
MaxThrottleCalls == 6
MaxFairCalls == 3
MaxGestureEvents == 5
\* events and calls in one behaviour of the error handler
MaxFaultEvents == 3
\* pointer events in one behaviour of the drag gesture
MaxDragEvents == 3
\* events and calls in one behaviour of the render pipeline
MaxPaintCalls == 3
\* calls in one behaviour of the export
MaxCopyCalls == 4
\* calls in one behaviour of the adapter, and the indices it is called with
MaxGridCalls == 2
MaxNegativeIndex == 2
MaxGridIndex == 5
\* calls in one behaviour of the statistics panel
MaxStatsCalls == 3
\* the largest row and column index a direct call names
MaxCallRow == 1
MaxCallCol == 2

\* null, for a field that holds no index yet
NULL == -2

(***************************************************************************)
(* The document.                                                           *)
(***************************************************************************)
Min(a, b) == IF a <= b THEN a ELSE b
Max(a, b) == IF a >= b THEN a ELSE b

Range(s) == {s[i] : i \in 1..Len(s)}

\* the document itself, the scope before the first gesture
DOCUMENT == 0
Tables == {1, 2}

\* Table 1: a <thead> row of two cells, then two body rows, the last of them
\* one cell short.  Table 2: maxSelectionSize + 1 rows, the
\* first of maxSelectionSize + 1 cells, the others of one cell.
RowLens(t) ==
  IF t = 1
  THEN <<2, 2, 1>>
  ELSE [r \in 1..(maxSelectionSize + 1) |->
          IF r = 1 THEN maxSelectionSize + 1 ELSE 1]

\* row elements of a table in document order (rows are numbered from 0)
TableRows(t) == [i \in 1..Len(RowLens(t)) |-> <<t, i - 1>>]

\* number of children of a row element that match SELECTORS.CELL
CellCount(row) == RowLens(row[1])[row[2] + 1]

\* $row.closest("thead").length > 0
InThead(row) == row[1] = 1 /\ row[2] = 0

CellElems ==
  UNION {{<<t, r - 1, c>> : c \in 0..(RowLens(t)[r] - 1)} :
           <<t, r>> \in {<<t, r>> \in Tables \X (1..(maxSelectionSize + 1)) :
                            r <= Len(RowLens(t))}}

Absent == <<>>

\* an element of the page that lies in no cell
Outside == <<0>>

\* an element that matches the cell selector by [class*='col-'] (a layout
\* column holding a form field) and lies in no row and no table
Orphan == <<0, 0>>

(***************************************************************************)
(* GridAdapters.default and Grid (lines 274-332).                          *)
(***************************************************************************)
\* jQuery .eq(i): the i-th element, counted from the end when i < 0, and the
\* empty set when there is none
Eq(elems, i) ==
  LET j == IF i < 0 THEN Len(elems) + i ELSE i
  IN  IF j >= 0 /\ j < Len(elems) THEN elems[j + 1] ELSE Absent

\* jQuery .index(el): the position of el, or -1
IndexOf(elems, el) ==
  IF \E i \in 1..Len(elems) : elems[i] = el
  THEN (CHOOSE i \in 1..Len(elems) : elems[i] = el) - 1
  ELSE -1

\* $row.children(SELECTORS.CELL)
Children(row) ==
  IF row = Absent THEN <<>>
  ELSE [i \in 1..CellCount(row) |-> <<row[1], row[2], i - 1>>]

\* $el.closest(SELECTORS.ROW), $el.closest(SELECTORS.SCOPE)
\* $el.closest(SELECTORS.ROW) and $el.closest(SELECTORS.SCOPE), which falls
\* back to the document; an element given by fewer than three numbers lies
\* in no row and no table
ClosestRow(el) == IF Len(el) < 3 THEN Absent ELSE <<el[1], el[2]>>
ClosestScope(el) == IF Len(el) < 3 THEN DOCUMENT ELSE el[1]

\* $scope.find(SELECTORS.ROW)
getRows(scope) ==
  IF scope = DOCUMENT THEN TableRows(1) \o TableRows(2) ELSE TableRows(scope)

getCell(scope, r, c) ==
  LET rows == getRows(scope)
  IN  IF r >= Len(rows) THEN Absent
      ELSE LET cells == Children(Eq(rows, r))
           IN  IF c >= Len(cells) THEN Absent ELSE Eq(cells, c)

getRowIndex(el, rows) == IndexOf(rows, ClosestRow(el))

getColumnIndex(el) == IndexOf(Children(ClosestRow(el)), el)

\* the elements of the page inside a scope
InScope(el, scope) == scope = DOCUMENT \/ el[1] = scope

RECURSIVE RowKeys(_, _, _)
RowKeys(r, c, c2) ==
  IF c > c2 THEN <<>> ELSE <<<<r, c>>>> \o RowKeys(r, c + 1, c2)

RECURSIVE RectKeys(_, _, _, _)
RectKeys(r, r2, c1, c2) ==
  IF r > r2 THEN <<>> ELSE RowKeys(r, c1, c2) \o RectKeys(r + 1, r2, c1, c2)

\* getRectangleKeys looping from the start corner to the end corner as given
getRectangleKeysAsGiven(startR, startC, endR, endC) ==
  IF (endR - startR + 1) * (endC - startC + 1) > maxSelectionSize THEN <<>>
  ELSE RectKeys(startR, endR, startC, endC)

getRectangleKeys(startR, startC, endR, endC) ==
  LET r1 == Min(startR, endR)
      r2 == Max(startR, endR)
      c1 == Min(startC, endC)
      c2 == Max(startC, endC)
      totalCells == (r2 - r1 + 1) * (c2 - c1 + 1)
  IN  IF totalCells > maxSelectionSize THEN <<>>
      ELSE RectKeys(r1, r2, c1, c2)

\* [a, b].sort((x, y) => x - y)
SortPair(a, b) == IF a - b > 0 THEN <<b, a>> ELSE <<a, b>>

\* Grid.getRectangleKeys of the v1.1.0 script (src/unnamed/part_000): the
\* corners are sorted, and no size is checked
getRectangleKeysV110(startR, startC, endR, endC) ==
  LET rs == SortPair(startR, endR)
      cs == SortPair(startC, endC)
  IN  RectKeys(rs[1], rs[2], cs[1], cs[2])

(***************************************************************************)
(* JavaScript Set operations on insertion-ordered sequences.               *)
(***************************************************************************)
SetAdd(s, k) == IF k \in Range(s) THEN s ELSE Append(s, k)

RECURSIVE SetAddAll(_, _)
SetAddAll(s, ks) ==
  IF ks = <<>> THEN s ELSE SetAddAll(SetAdd(s, Head(ks)), Tail(ks))

RECURSIVE SetDeleteAll(_, _)
SetDeleteAll(s, ks) ==
  IF s = <<>> THEN <<>>
  ELSE IF Head(s) \in Range(ks) THEN SetDeleteAll(Tail(s), ks)
       ELSE <<Head(s)>> \o SetDeleteAll(Tail(s), ks)

(***************************************************************************)
(* Utils.getCellText and Clipboard (lines 214-245, 797-866).  A text is a  *)
(* sequence of characters; TAB and NL are the separators of formatAsTSV.   *)
(***************************************************************************)
TAB == "\t"
NL == "\n"

\* The trimmed text of a cell of the page, as a sequence of pieces: one body
\* cell of table 1 is empty, and the cell of its last row holds a tab
\* between two words (text().trim() keeps white space inside the text).
TextOf(el) ==
  IF el = <<1, 1, 1>> THEN <<>>
  ELSE IF el = <<1, 2, 0>> THEN <<"a", TAB, "b">>
  ELSE <<ToString(el)>>

\* getCellText($cell) ends in cache.set($cell[0], result), a WeakMap.set that
\* throws a TypeError when $cell is empty ($cell[0] is undefined)
getCellTextThrows(cell) == cell = Absent
getCellText(cell) == TextOf(cell)

RECURSIVE SortAsc(_)
SortAsc(S) ==
  IF S = {} THEN <<>>
  ELSE LET m == CHOOSE x \in S : \A y \in S : x <= y
       IN  <<m>> \o SortAsc(S \ {m})

RECURSIVE Join(_, _)
Join(texts, sep) ==
  IF texts = <<>> THEN <<>>
  ELSE IF Len(texts) = 1 THEN texts[1]
       ELSE texts[1] \o <<sep>> \o Join(Tail(texts), sep)

\* $row.closest("thead").length > 0 || $row.find('[role="columnheader"]').length > 0
\* for $row = Grid.getRows($scope).eq(r)
IsHeaderRowAt(scope, r) ==
  LET row == Eq(getRows(scope), r) IN row # Absent /\ InThead(row)

\* the row indices of the selection, sorted ascending
RowIndices(sel) == SortAsc({k[1] : k \in Range(sel)})

\* the columns of a row as the reduce of copySelection pushed them
ColsOfRowAsInserted(sel, r) ==
  LET ks == SelectSeq(sel, LAMBDA k : k[1] = r)
  IN  [i \in 1..Len(ks) |-> ks[i][2]]

\* rowsMap[r].sort((a, b) => a - b)
ColsOfRow(sel, r) == SortAsc({k[2] : k \in {x \in Range(sel) : x[1] = r}})

\* rowIndices.filter(...) of formatAsTSV
IncludedRows(scope, sel, includeHeaders) ==
  SelectSeq(RowIndices(sel),
            LAMBDA r : includeHeaders \/ ~IsHeaderRowAt(scope, r))

formatAsTSVThrows(scope, sel, includeHeaders) ==
  \E k \in Range(sel) :
    /\ k[1] \in Range(IncludedRows(scope, sel, includeHeaders))
    /\ getCellTextThrows(getCell(scope, k[1], k[2]))

formatAsTSV(scope, sel, includeHeaders) ==
  LET rs == IncludedRows(scope, sel, includeHeaders)
      line(r) ==
        LET cs == ColsOfRow(sel, r)
        IN  Join([i \in 1..Len(cs) |-> getCellText(getCell(scope, r, cs[i]))],
                 TAB)
  IN  Join([i \in 1..Len(rs) |-> line(rs[i])], NL)

\* a policy under which only an explicit request includes the header rows
ShouldIncludeHeadersOnRequest(scope, sel, includeHeaders) ==
  includeHeaders = "true"

\* includeHeaders is "true", "false" or "null" (inferred from the selection)
ShouldIncludeHeaders(scope, sel, includeHeaders) ==
  IF includeHeaders = "null"
  THEN \E r \in Range(RowIndices(sel)) : IsHeaderRowAt(scope, r)
  ELSE includeHeaders = "true"

\* the clipboard before anything was written to it
NoClip == <<"<none>">>

(***************************************************************************)
(* The state.                                                              *)
(***************************************************************************)
VARIABLES
  enabled,          \* EventHandlers.enabled
  errorCount,       \* ErrorHandler.errorCount, saturated at maxErrors + 1
  frameDropCount,   \* Performance.frameDropCount, saturated at frameDropLimit + 1
  isOverloaded,     \* Performance.isOverloaded
  scope,            \* SelectionState.$scope: DOCUMENT or a table
  selection,        \* SelectionState.selection
  dragging,         \* SelectionState.dragging
  startRow, startCol, currentRow, currentCol,
  modifierHeld,     \* SelectionState.modifierHeld
  keyboardMode,     \* SelectionState.keyboardMode (kbMode in 1.0.2)
  selectingMode,    \* body carries CONFIG.css.bodyClass (UI.setSelectingMode)
  paintQueue,       \* UI.paintQueue
  unpaintQueue,     \* UI.unpaintQueue
  hl,               \* the cell elements that carry CONFIG.css.selClass
  raf,              \* pending animation-frame callbacks: the paintArray of each
  tMove,            \* throttle state of EventHandlers.mouseMoveThrottled
  tPaint,           \* throttle state of UI.batchPaint
  tStats,           \* throttle state of UI.updateStats
  moveArg,          \* the event captured by the pending mouse-move timer
  statsArg,         \* the $scope captured by the pending updateStats timer
  clipboard,        \* the text last handed to GM_setClipboard
  slowPage,         \* whether work on this page can take more than 16 ms
  revision,         \* the revision of the script that runs on the page
  left,             \* the input events and calls the behaviour may still take
  last              \* the last step: its operation, arguments and how it ended

vars ==
  <<enabled, errorCount, frameDropCount, isOverloaded, scope, selection,
    dragging, startRow, startCol, currentRow, currentCol, modifierHeld,
    keyboardMode, revision, selectingMode, paintQueue, unpaintQueue, hl, raf, tMove, tPaint, tStats,
    moveArg, statsArg, clipboard, slowPage, left, last>>

\* the program's state as one record; thrown: an exception is propagating
State ==
  [enabled |-> enabled, errorCount |-> errorCount,
   frameDropCount |-> frameDropCount, isOverloaded |-> isOverloaded,
   scope |-> scope, selection |-> selection, dragging |-> dragging,
   startRow |-> startRow, startCol |-> startCol,
   currentRow |-> currentRow, currentCol |-> currentCol,
   modifierHeld |-> modifierHeld, keyboardMode |-> keyboardMode,
   selectingMode |-> selectingMode,
   paintQueue |-> paintQueue, unpaintQueue |-> unpaintQueue, hl |-> hl,
   raf |-> raf, tMove |-> tMove, tPaint |-> tPaint, tStats |-> tStats,
   moveArg |-> moveArg, statsArg |-> statsArg, clipboard |-> clipboard,
   thrown |-> FALSE]

NoMoveArg == [target |-> Outside, shift |-> FALSE]

(***************************************************************************)
(* Performance (lines 86-145).                                             *)
(***************************************************************************)
\* a measure whose breaker trips one slow operation sooner
PerformanceMeasureEager(s, slow) ==
  IF slow
  THEN LET n == Min(s.frameDropCount + 1, frameDropLimit + 1)
       IN  [s EXCEPT !.frameDropCount = n,
                     !.isOverloaded = @ \/ n >= frameDropLimit]
  ELSE s

\* measure(operation, fn) after fn has run; slow: fn took more than 16 ms
PerformanceMeasure(s, slow) ==
  IF slow
  THEN LET n == Min(s.frameDropCount + 1, frameDropLimit + 1)
       IN  [s EXCEPT !.frameDropCount = n,
                     !.isOverloaded = @ \/ n > frameDropLimit]
  ELSE s

PerformanceReset(s) == [s EXCEPT !.frameDropCount = 0, !.isOverloaded = FALSE]

\* Date.now() - lastCall is compared with ms, and with ms * 2 once the page
\* has been slow; larger values are not told apart
SinceCap(ms) == IF slowPage THEN 2 * ms ELSE ms

\* A throttled function: since = Date.now() - lastCall, sched = isScheduled,
\* timers = the remaining delay of every timer set and not yet fired.
\* Two fields are not the program's: idle, the time since fn last ran, and
\* early, whether fn has ever run less than ms after its previous run.
ThrottleInit(ms) ==
  [since |-> SinceCap(ms), idle |-> SinceCap(ms), sched |-> FALSE,
   timers |-> <<>>, early |-> FALSE]

effectiveMs(ms, overloaded) == IF overloaded THEN ms * 2 ELSE ms

\* the branches of a throttle that does not look at isScheduled
ThrottleBranchUnguarded(t, ms, overloaded) ==
  IF t.since >= effectiveMs(ms, overloaded) THEN "run" ELSE "schedule"

\* which branch a call takes
ThrottleBranch(t, ms, overloaded) ==
  IF t.since >= effectiveMs(ms, overloaded) /\ ~t.sched THEN "run"
  ELSE IF ~t.sched THEN "schedule"
  ELSE "drop"

\* lastCall = now; fn.apply(this, args)
ThrottleRun(t, ms) ==
  [t EXCEPT !.since = 0, !.idle = 0, !.early = @ \/ t.idle < ms]

\* a throttle that sets its timer without setting isScheduled
ThrottleScheduleUnflagged(t, ms, overloaded) ==
  [t EXCEPT !.timers = Append(@, effectiveMs(ms, overloaded) - t.since)]

\* a throttle that sets isScheduled and sets no timer
ThrottleScheduleNoTimer(t, ms, overloaded) ==
  [t EXCEPT !.sched = TRUE]

\* isScheduled = true; timeout = setTimeout(..., effectiveMs - timeSinceLastCall)
ThrottleSchedule(t, ms, overloaded) ==
  [t EXCEPT !.sched = TRUE,
            !.timers = Append(@, effectiveMs(ms, overloaded) - t.since)]

\* the timer's callback: isScheduled = false; lastCall = Date.now(); fn.apply
ThrottleFired(t, ms) ==
  [t EXCEPT !.sched = FALSE, !.since = 0, !.idle = 0,
            !.early = @ \/ t.idle < ms, !.timers = Tail(@)]

TimerDue(t) == t.timers # <<>> /\ Head(t.timers) = 0

\* one tick of the clock
ThrottleTick(t, ms) ==
  [t EXCEPT !.since = Min(@ + 1, SinceCap(ms)),
            !.idle = Min(@ + 1, SinceCap(ms)),
            !.timers = [i \in DOMAIN @ |-> Max(@[i] - 1, 0)]]

(***************************************************************************)
(* UI: the render pipeline (lines 435-470, 514-600).                       *)
(***************************************************************************)
\* $scope.find("." + selClass).removeClass(selClass)
Unhighlight(cells, sc) == {e \in cells : ~InScope(e, sc)}

\* the function batchPaint wraps, inside Performance.measure
batchPaintFn(s, slow) ==
  LET n == Min(Len(s.paintQueue), maxPaintCells)
      s1 == [s EXCEPT !.hl = Unhighlight(@, s.scope),
                      !.raf = IF Len(s.paintQueue) > 0
                              THEN Append(@, SubSeq(s.paintQueue, 1, n))
                              ELSE @,
                      !.unpaintQueue = <<>>]
  IN  PerformanceMeasure(s1, slow)

\* UI.batchPaint()
batchPaint(s, slow) ==
  LET b == ThrottleBranch(s.tPaint, paintThrottleMs, s.isOverloaded)
  IN  CASE b = "run" ->
             batchPaintFn([s EXCEPT !.tPaint = ThrottleRun(@, paintThrottleMs)],
                          slow)
        [] b = "schedule" ->
             [s EXCEPT !.tPaint =
                         ThrottleSchedule(@, paintThrottleMs, s.isOverloaded)]
        [] OTHER -> s

\* the animation-frame callback of batchPaint, for its paintArray
rafCallback(s, paintArray) ==
  LET cells == {getCell(s.scope, k[1], k[2]) : k \in Range(paintArray)}
  IN  [s EXCEPT !.hl = @ \cup (cells \ {Absent}),
                !.paintQueue = SetDeleteAll(@, paintArray)]

\* calculateStats visits the first statsCap + 1 keys and reads the text of
\* each when selection.size < statsCap
calculateStatsThrows(sel, sc) ==
  /\ Len(sel) < statsCap
  /\ \E i \in 1..Min(Len(sel), statsCap + 1) :
       getCellTextThrows(getCell(sc, sel[i][1], sel[i][2]))

\* the keys the loop of calculateStats reaches before `processed++ > cap`
\* breaks it
StatsVisited(sel) == SubSeq(sel, 1, Min(Len(sel), statsCap + 1))

\* the cardinalities calculateStats returns
calculateStats(sel, sc) ==
  [cells |-> Len(sel),
   rows |-> Cardinality({k[1] : k \in Range(StatsVisited(sel))}),
   cols |-> Cardinality({k[2] : k \in Range(StatsVisited(sel))})]

\* the function updateStats wraps; selection is the live Set, sc the argument
updateStatsFn(s, sc) ==
  IF Len(s.selection) = 0 THEN s
  ELSE IF calculateStatsThrows(s.selection, sc) THEN [s EXCEPT !.thrown = TRUE]
  ELSE s

\* UI.updateStats(selection, $scope)
updateStats(s, sc) ==
  LET b == ThrottleBranch(s.tStats, statsThrottleMs, s.isOverloaded)
  IN  CASE b = "run" ->
             updateStatsFn([s EXCEPT !.tStats =
                                       ThrottleRun(@, statsThrottleMs)], sc)
        [] b = "schedule" ->
             [s EXCEPT !.tStats =
                         ThrottleSchedule(@, statsThrottleMs, s.isOverloaded),
                       !.statsArg = sc]
        [] OTHER -> s

(***************************************************************************)
(* SelectionState (lines 607-795).                                         *)
(***************************************************************************)
\* an emergencyReset that does not release the modifier
emergencyResetKeepsModifier(s) ==
  PerformanceReset(
    [s EXCEPT !.hl = {}, !.selection = <<>>, !.dragging = FALSE,
              !.paintQueue = <<>>, !.unpaintQueue = <<>>,
              !.selectingMode = FALSE])

emergencyReset(s) ==
  PerformanceReset(
    [s EXCEPT !.hl = {}, !.selection = <<>>, !.dragging = FALSE,
              !.keyboardMode = FALSE, !.modifierHeld = FALSE, !.paintQueue = <<>>,
              !.unpaintQueue = <<>>, !.selectingMode = FALSE])

clear(s) ==
  [s EXCEPT !.hl = Unhighlight(@, s.scope), !.selection = <<>>,
            !.paintQueue = <<>>, !.unpaintQueue = <<>>,
            !.selectingMode = FALSE]

setScope(s, el) == [s EXCEPT !.scope = ClosestScope(el)]

\* addRectangleSelection without the check of selection.size + keys.length
addRectangleSelectionOKUnchecked(s, startR, startC, endR, endC) ==
  Len(getRectangleKeys(startR, startC, endR, endC)) # 0

\* addRectangleSelection applying a rejected rectangle as far as it fits
addRectangleSelectionPartial(s, startR, startC, endR, endC) ==
  LET keys == getRectangleKeys(startR, startC, endR, endC)
      room == Max(maxSelectionSize - Len(s.selection), 0)
      part == SubSeq(keys, 1, Min(Len(keys), room))
  IN  [s EXCEPT !.selection = SetAddAll(@, part),
                !.paintQueue = SetAddAll(@, keys)]

\* the value addRectangleSelection returns
addRectangleSelectionOK(s, startR, startC, endR, endC) ==
  LET keys == getRectangleKeys(startR, startC, endR, endC)
  IN  /\ Len(keys) # 0
      /\ ~(Len(s.selection) + Len(keys) > maxSelectionSize)

addRectangleSelection(s, startR, startC, endR, endC) ==
  LET keys == getRectangleKeys(startR, startC, endR, endC)
  IN  IF addRectangleSelectionOK(s, startR, startC, endR, endC)
      THEN [s EXCEPT !.selection = SetAddAll(@, keys),
                     !.paintQueue = SetAddAll(@, keys)]
      ELSE s

paint(s, slow) ==
  IF Len(s.selection) = 0
  THEN [s EXCEPT !.hl = Unhighlight(@, s.scope)]
  ELSE LET s1 == [s EXCEPT !.paintQueue = SetAddAll(@, s.selection)]
           s2 == batchPaint(s1, slow)
       IN  updateStats(s2, s2.scope)

\* the keys of a selectColumn that never skips a header cell
ColumnKeysWithHeaders(sc, colIndex, includeHeader) ==
  LET rows == getRows(sc)
      hit(i) == Eq(Children(rows[i]), colIndex) # Absent
  IN  [j \in 1..Len(SelectSeq([i \in 1..Len(rows) |-> i], hit)) |->
         <<SelectSeq([i \in 1..Len(rows) |-> i], hit)[j] - 1, colIndex>>]

\* the keys selectColumn adds, in row order
ColumnKeys(sc, colIndex, includeHeader) ==
  LET rows == getRows(sc)
      hit(i) ==
        LET cell == Eq(Children(rows[i]), colIndex)
        IN  cell # Absent /\ (includeHeader \/ ~InThead(ClosestRow(cell)))
  IN  [j \in 1..Len(SelectSeq([i \in 1..Len(rows) |-> i], hit)) |->
         <<SelectSeq([i \in 1..Len(rows) |-> i], hit)[j] - 1, colIndex>>]

selectColumnRejects(s) == Len(getRows(s.scope)) > maxSelectionSize

selectColumn(s, colIndex, includeHeader, slow) ==
  IF selectColumnRejects(s) THEN s
  ELSE LET keys == ColumnKeys(s.scope, colIndex, includeHeader)
       IN  paint([s EXCEPT !.selection = keys, !.paintQueue = keys], slow)

selectRowRejects(s, rowIndex) ==
  Len(Children(Eq(getRows(s.scope), rowIndex))) > maxSelectionSize

selectRow(s, rowIndex, slow) ==
  LET cells == Children(Eq(getRows(s.scope), rowIndex))
      keys == [i \in 1..Len(cells) |-> <<rowIndex, i - 1>>]
  IN  IF selectRowRejects(s, rowIndex) THEN s
      ELSE paint([s EXCEPT !.selection = keys, !.paintQueue = keys], slow)

startDrag(s, cell) ==
  LET s1 == setScope(s, cell)
      r == getRowIndex(cell, getRows(s1.scope))
      c == getColumnIndex(cell)
  IN  [s1 EXCEPT !.startRow = r, !.currentRow = r,
                 !.startCol = c, !.currentCol = c, !.dragging = TRUE]

\* newRow === this.currentRow && newCol === this.currentCol
updateDragSame(s, cell) ==
  /\ getRowIndex(cell, getRows(s.scope)) = s.currentRow
  /\ getColumnIndex(cell) = s.currentCol

\* updateDrag without the test for an unchanged coordinate
updateDragAlways(s, cell, extending, slow) ==
  LET s1 == [s EXCEPT !.currentRow = getRowIndex(cell, getRows(s.scope)),
                      !.currentCol = getColumnIndex(cell)]
      s2 == IF ~extending
            THEN [s1 EXCEPT !.unpaintQueue = SetAddAll(@, s1.selection),
                            !.selection = <<>>]
            ELSE s1
      s3 == addRectangleSelection(s2, s2.startRow, s2.startCol,
                                  s2.currentRow, s2.currentCol)
  IN  batchPaint(s3, slow)

updateDrag(s, cell, extending, slow) ==
  IF updateDragSame(s, cell) THEN s
  ELSE LET s1 == [s EXCEPT !.currentRow = getRowIndex(cell, getRows(s.scope)),
                           !.currentCol = getColumnIndex(cell)]
           s2 == IF ~extending
                 THEN [s1 EXCEPT !.unpaintQueue = SetAddAll(@, s1.selection),
                                 !.selection = <<>>]
                 ELSE s1
           ok == addRectangleSelectionOK(s2, s2.startRow, s2.startCol,
                                         s2.currentRow, s2.currentCol)
           s3 == addRectangleSelection(s2, s2.startRow, s2.startCol,
                                       s2.currentRow, s2.currentCol)
       IN  IF ok THEN batchPaint(s3, slow) ELSE s3

endDrag(s, slow) ==
  paint([s EXCEPT !.dragging = FALSE, !.selectingMode = FALSE], slow)

(***************************************************************************)
(* Clipboard (lines 797-866).                                              *)
(***************************************************************************)
copySelection(s, includeHeaders) ==
  IF Len(s.selection) = 0 THEN s
  ELSE LET inc == ShouldIncludeHeaders(s.scope, s.selection, includeHeaders)
       IN  IF formatAsTSVThrows(s.scope, s.selection, inc)
           THEN [s EXCEPT !.thrown = TRUE]
           ELSE [s EXCEPT !.clipboard = formatAsTSV(s.scope, s.selection, inc)]

copySingleCell(s, text) == [s EXCEPT !.clipboard = text]

(***************************************************************************)
(* ErrorHandler (lines 147-194).                                           *)
(***************************************************************************)
\* EventHandlers.disable()
disable(s) == [s EXCEPT !.enabled = FALSE]

emergencyCleanup(s) == disable(emergencyReset(s))

\* handleError for an error whose message names neither a stack overflow
\* nor memory exhaustion
handleError(s) ==
  LET s1 == [s EXCEPT !.errorCount = Min(@ + 1, maxErrors + 1),
                      !.thrown = FALSE]
  IN  IF s1.errorCount > maxErrors THEN emergencyCleanup(s1) ELSE s1

\* the wrapper wrapSafely returns, after the wrapped function has run
wrapSafely(s) == IF s.thrown THEN handleError(s) ELSE s

\* the listeners setupMouseEvents and setupKeyboardEvents register, and
\* whether the function registered is one ErrorHandler.wrapSafely returned:
\* mousemove is given this.mouseMoveThrottled itself (line 894)
GestureHandlers ==
  {"mousedown", "mousemove", "mouseup", "dblclick", "keydown", "keyup"}

Wrapped(h) == h # "mousemove"

\* What the listener of event h returns to the page when its handler ends in
\* s: thrown still set is the exception leaving the listener.
Listener(h, s) == IF Wrapped(h) THEN wrapSafely(s) ELSE s

(***************************************************************************)
(* EventHandlers (lines 868-1041).  An event is its target (a cell element *)
(* or Outside), its button and its modifier keys: primary is               *)
(* Utils.isPrimary(e) (Alt or Meta), shift is Utils.isExtending(e).        *)
(***************************************************************************)
\* $(e.target).closest(SELECTORS.CELL)
ClosestCell(target) == IF target = Outside THEN Absent ELSE target

handleMouseDown(s, target, button, primary, shift, slow) ==
  IF ~s.enabled \/ button # 0 \/ ~primary THEN s
  ELSE IF ClosestCell(target) = Absent THEN s
  ELSE LET s1 == startDrag(s, ClosestCell(target))
           s2 == IF ~shift THEN [s1 EXCEPT !.selection = <<>>] ELSE s1
           s3 == addRectangleSelection(s2, s2.startRow, s2.startCol,
                                       s2.currentRow, s2.currentCol)
           s4 == paint(s3, slow)
       IN  IF s4.thrown THEN s4 ELSE [s4 EXCEPT !.selectingMode = TRUE]

handleDoubleClick(s, target, primary, shift, slow) ==
  IF ~s.enabled THEN s
  ELSE IF ClosestCell(target) = Absent THEN s
  ELSE IF ~primary THEN s
  ELSE LET s1 == setScope(s, ClosestCell(target))
           colIndex == getColumnIndex(ClosestCell(target))
           s2 == selectColumn(s1, colIndex, shift, slow)
       IN  IF colIndex = -1 THEN s1
           ELSE IF s2.thrown THEN s2
           ELSE copySelection(s2, IF shift THEN "true" ELSE "false")

handleMouseMove(s, target, shift, slow) ==
  IF ~s.enabled \/ ~s.dragging THEN s
  ELSE IF ClosestCell(target) = Absent THEN s
  ELSE updateDrag(s, ClosestCell(target), shift, slow)

\* EventHandlers.mouseMoveThrottled(e)
mouseMoveThrottled(s, target, shift, slow) ==
  LET b == ThrottleBranch(s.tMove, mouseMoveMs, s.isOverloaded)
  IN  CASE b = "run" ->
             handleMouseMove([s EXCEPT !.tMove = ThrottleRun(@, mouseMoveMs)],
                             target, shift, slow)
        [] b = "schedule" ->
             [s EXCEPT !.tMove =
                         ThrottleSchedule(@, mouseMoveMs, s.isOverloaded),
                       !.moveArg = [target |-> target, shift |-> shift]]
        [] OTHER -> s

isSingleCell(s) ==
  s.startRow = s.currentRow /\ s.startCol = s.currentCol

handleMouseUp(s, target, primary, shift, slow) ==
  IF ~s.enabled \/ ~s.dragging THEN s
  ELSE LET s1 == endDrag(s, slow)
           cell == ClosestCell(target)
       IN  IF s1.thrown THEN s1
           ELSE IF isSingleCell(s1)
           THEN IF getCellTextThrows(cell) THEN [s1 EXCEPT !.thrown = TRUE]
                ELSE IF getCellText(cell) # <<>>
                THEN copySingleCell(s1, getCellText(cell))
                ELSE s1
           ELSE copySelection(s1, IF primary /\ shift THEN "true" ELSE "null")

handleKeyDown(s, escape, primary) ==
  IF escape THEN clear(s)
  ELSE IF primary /\ ~s.modifierHeld
  THEN [s EXCEPT !.modifierHeld = TRUE, !.selectingMode = TRUE]
  ELSE s

\* a key-up handler that also ends the drag
handleKeyUpEndsDrag(s, primary) ==
  IF ~primary
  THEN [s EXCEPT !.modifierHeld = FALSE, !.dragging = FALSE,
                 !.selectingMode = FALSE]
  ELSE s

handleKeyUp(s, primary) ==
  IF ~primary
  THEN [s EXCEPT !.modifierHeld = FALSE,
                 !.selectingMode = IF ~s.dragging THEN FALSE ELSE @]
  ELSE s

(***************************************************************************)
(* The state machine.                                                      *)
(***************************************************************************)
\* the elements events are aimed at: the first header cell and three body
\* cells of table 1, the last cell of the long row of table 2, and an
\* element outside every cell
Targets ==
  {<<1, 0, 0>>, <<1, 1, 0>>, <<1, 1, 1>>, <<1, 2, 0>>,
   <<2, 0, maxSelectionSize>>, Outside}
Buttons == {0, 2}

\* the state after construction and init() (lines 1043-1062), on a page
\* that is slow or not, with a budget of events and calls
InitWith(slow, budget) ==
  /\ slowPage = slow
  /\ left = budget
  /\ enabled = TRUE
  /\ errorCount = 0
  /\ frameDropCount = 0
  /\ isOverloaded = FALSE
  /\ scope = DOCUMENT
  /\ selection = <<>>
  /\ dragging = FALSE
  /\ startRow = NULL /\ startCol = NULL
  /\ currentRow = NULL /\ currentCol = NULL
  /\ modifierHeld = FALSE
  /\ keyboardMode = FALSE
  /\ revision = "2.0.0"
  /\ selectingMode = FALSE
  /\ paintQueue = <<>>
  /\ unpaintQueue = <<>>
  /\ hl = {}
  /\ raf = <<>>
  /\ tMove = ThrottleInit(mouseMoveMs)
  /\ tPaint = ThrottleInit(paintThrottleMs)
  /\ tStats = ThrottleInit(statsThrottleMs)
  /\ moveArg = NoMoveArg
  /\ statsArg = DOCUMENT
  /\ clipboard = NoClip
  /\ last = [op |-> "init", ext |-> FALSE, res |-> "ok", arg |-> <<>>]

Init == InitWith(FALSE, MaxEvents)

\* how handleMouseDown ends, from state s
mouseDownRes(s, target, button, primary, shift, slow) ==
  IF ~s.enabled \/ button # 0 \/ ~primary \/ ClosestCell(target) = Absent
  THEN "ignored"
  ELSE IF handleMouseDown(s, target, button, primary, shift, slow).thrown
  THEN "threw"
  ELSE LET s1 == startDrag(s, ClosestCell(target))
           s2 == IF ~shift THEN [s1 EXCEPT !.selection = <<>>] ELSE s1
       IN  IF addRectangleSelectionOK(s2, s2.startRow, s2.startCol,
                                      s2.currentRow, s2.currentCol)
           THEN "ok" ELSE "rejected"

\* how handleMouseMove ends, from state s
mouseMoveRes(s, target, shift) ==
  IF ~s.enabled \/ ~s.dragging \/ ClosestCell(target) = Absent THEN "ignored"
  ELSE IF updateDragSame(s, ClosestCell(target)) THEN "same"
  ELSE LET s1 == [s EXCEPT !.currentRow = getRowIndex(target, getRows(s.scope)),
                           !.currentCol = getColumnIndex(target)]
           s2 == IF ~shift THEN [s1 EXCEPT !.selection = <<>>] ELSE s1
       IN  IF addRectangleSelectionOK(s2, s2.startRow, s2.startCol,
                                      s2.currentRow, s2.currentCol)
           THEN "ok" ELSE "rejected"

\* how a handler without a capacity check ends
Outcome(s0, s) ==
  IF s.thrown THEN "threw" ELSE IF s = s0 THEN "ignored" ELSE "ok"

\* The step to state record s, recorded as operation op with arguments arg
\* (ext: the extend modifier or includeHeader) ending as res.  An event that
\* is ignored, or a call that a throttle drops, changes nothing and is no
\* step.
Becomes(s, op, ext, res, arg) ==
  /\ s # State \/ res \in {"same", "rejected"}
  /\ enabled' = s.enabled
  /\ errorCount' = s.errorCount
  /\ frameDropCount' = s.frameDropCount
  /\ isOverloaded' = s.isOverloaded
  /\ scope' = s.scope
  /\ selection' = s.selection
  /\ dragging' = s.dragging
  /\ startRow' = s.startRow /\ startCol' = s.startCol
  /\ currentRow' = s.currentRow /\ currentCol' = s.currentCol
  /\ modifierHeld' = s.modifierHeld
  /\ keyboardMode' = s.keyboardMode
  /\ revision' = revision
  /\ selectingMode' = s.selectingMode
  /\ paintQueue' = s.paintQueue
  /\ unpaintQueue' = s.unpaintQueue
  /\ hl' = s.hl
  /\ raf' = s.raf
  /\ tMove' = s.tMove
  /\ tPaint' = s.tPaint
  /\ tStats' = s.tStats
  /\ moveArg' = s.moveArg
  /\ statsArg' = s.statsArg
  /\ clipboard' = s.clipboard
  /\ slowPage' = slowPage
  /\ last' = [op |-> op, ext |-> ext, res |-> res, arg |-> arg]

\* an input event or a direct call, counted
Input(s, op, ext, res, arg) ==
  /\ left > 0
  /\ left' = left - 1
  /\ Becomes(s, op, ext, res, arg)

\* a timer, an animation frame or a tick
Internal(s, op, res, arg) ==
  /\ left' = left
  /\ Becomes(s, op, FALSE, res, arg)

\* whether an operation may take more than 16 ms
SlowOps == IF slowPage THEN BOOLEAN ELSE {FALSE}

(***************************************************************************)
(* Input events.                                                           *)
(***************************************************************************)
MouseDown ==
  \E target \in Targets, button \in Buttons, primary, shift \in BOOLEAN,
     slow \in SlowOps :
    Input(Listener("mousedown",
                   handleMouseDown(State, target, button, primary, shift,
                                   slow)),
          "mousedown", shift,
          mouseDownRes(State, target, button, primary, shift, slow),
          <<target, button, primary>>)

\* a mousemove event reaches mouseMoveThrottled, which is registered unwrapped
\* (line 894) until disable() removes it
MouseMove ==
  \E target \in Targets, shift \in BOOLEAN, slow \in SlowOps :
    LET b == ThrottleBranch(tMove, mouseMoveMs, isOverloaded)
        res == CASE b = "run" -> mouseMoveRes(State, target, shift)
                 [] b = "schedule" -> "scheduled"
                 [] OTHER -> "dropped"
    IN  /\ enabled
        /\ Input(Listener("mousemove",
                          mouseMoveThrottled(State, target, shift, slow)),
                 "mousemove", shift, res,
                 IF res = "ignored" THEN <<>> ELSE <<target>>)

\* the targets of a gesture followed event by event: two cells of one row
\* of table 1 and a cell of table 2
DragTargets == {<<1, 1, 0>>, <<1, 1, 1>>, <<2, 1, 0>>}

\* a mousedown event of the main button with the primary modifier held and
\* without the extend modifier
DragMouseDown ==
  \E target \in DragTargets, slow \in SlowOps :
    Input(Listener("mousedown",
                   handleMouseDown(State, target, 0, TRUE, FALSE, slow)),
          "mousedown", FALSE,
          mouseDownRes(State, target, 0, TRUE, FALSE, slow),
          <<target, 0, TRUE>>)

\* a mousemove event over one of the targets, without the extend modifier
DragMouseMove ==
  \E target \in DragTargets, slow \in SlowOps :
    LET b == ThrottleBranch(tMove, mouseMoveMs, isOverloaded)
        res == CASE b = "run" -> mouseMoveRes(State, target, FALSE)
                 [] b = "schedule" -> "scheduled"
                 [] OTHER -> "dropped"
    IN  /\ enabled
        /\ Input(Listener("mousemove",
                          mouseMoveThrottled(State, target, FALSE, slow)),
                 "mousemove", FALSE, res,
                 IF res = "ignored" THEN <<>> ELSE <<target>>)

\* a mouseup event on one of the targets or outside every cell, no modifier
\* held
DragMouseUp ==
  \E target \in DragTargets \cup {Outside}, slow \in SlowOps :
    LET s == handleMouseUp(State, target, FALSE, FALSE, slow)
    IN  Input(Listener("mouseup", s), "mouseup", FALSE, Outcome(State, s),
              <<target>>)

MouseUp ==
  \E target \in Targets, primary, shift \in BOOLEAN, slow \in SlowOps :
    LET s == handleMouseUp(State, target, primary, shift, slow)
    IN  Input(Listener("mouseup", s), "mouseup", shift, Outcome(State, s),
              <<>>)

DoubleClick ==
  \E target \in Targets, primary, shift \in BOOLEAN, slow \in SlowOps :
    LET s == handleDoubleClick(State, target, primary, shift, slow)
    IN  Input(Listener("dblclick", s), "dblclick", shift,
              IF ~s.thrown /\ s # State
                 /\ selectColumnRejects(setScope(State, target))
              THEN "rejected" ELSE Outcome(State, s),
              <<target>>)

KeyDown ==
  \E escape, primary \in BOOLEAN :
    LET s == handleKeyDown(State, escape, primary)
    IN  Input(Listener("keydown", s),
              IF escape THEN "escape" ELSE "keydown", FALSE,
              Outcome(State, s), <<>>)

KeyUp ==
  \E primary \in BOOLEAN :
    LET s == handleKeyUp(State, primary)
    IN  Input(Listener("keyup", s), "keyup", FALSE, Outcome(State, s), <<>>)

(***************************************************************************)
(* Timers, animation frames and the clock.                                 *)
(***************************************************************************)
\* the trailing timer of mouseMoveThrottled fires
MouseMoveTimer ==
  \E slow \in SlowOps :
    LET s0 == [State EXCEPT !.tMove = ThrottleFired(@, mouseMoveMs),
                            !.moveArg = NoMoveArg]
        res == mouseMoveRes(s0, moveArg.target, moveArg.shift)
    IN  /\ TimerDue(tMove)
        /\ Becomes(handleMouseMove(s0, moveArg.target, moveArg.shift, slow),
                   "mousemove-timer", moveArg.shift, res,
                   IF res = "ignored" THEN <<>> ELSE <<moveArg.target>>)
        /\ left' = left

\* the trailing timer of batchPaint fires
BatchPaintTimer ==
  \E slow \in SlowOps :
    /\ TimerDue(tPaint)
    /\ Internal(batchPaintFn([State EXCEPT !.tPaint =
                                ThrottleFired(@, paintThrottleMs)], slow),
                "paint-timer", "ok", <<>>)

\* the trailing timer of updateStats fires; an exception it throws reaches
\* the window's error listener, ErrorHandler.handleError (line 152)
StatsTimer ==
  LET s0 == [State EXCEPT !.tStats = ThrottleFired(@, statsThrottleMs),
                          !.statsArg = DOCUMENT]
      s == updateStatsFn(s0, statsArg)
  IN  /\ TimerDue(tStats)
      /\ Internal(wrapSafely(s), "stats-timer",
                  IF s.thrown THEN "threw" ELSE "ok", <<>>)

\* an uncaught error of any script of the page reaches the window's error
\* listener, ErrorHandler.handleError (line 152)
WindowError ==
  /\ left > 0
  /\ Input(handleError(State), "error", FALSE, "ok", <<>>)

\* the browser runs the oldest pending animation-frame callback
AnimationFrame ==
  /\ raf # <<>>
  /\ Internal(rafCallback([State EXCEPT !.raf = Tail(@)], Head(raf)),
              "raf", "ok", <<>>)

\* The clock advances by one tick.  A frame is shorter than a tick, so the
\* pending animation-frame callbacks have run by then, and a timer that is
\* due fires before the clock moves on.
Tick ==
  /\ raf = <<>>
  /\ ~TimerDue(tMove) /\ ~TimerDue(tPaint) /\ ~TimerDue(tStats)
  /\ Internal([State EXCEPT !.tMove = ThrottleTick(@, mouseMoveMs),
                            !.tPaint = ThrottleTick(@, paintThrottleMs),
                            !.tStats = ThrottleTick(@, statsThrottleMs)],
              "tick", "ok", <<>>)

(***************************************************************************)
(* Direct calls of the programming interface.                              *)
(***************************************************************************)
CallRows == 0..MaxCallRow
CallCols == 0..MaxCallCol

CallAddRectangleSelection ==
  \E startR, endR \in CallRows, startC, endC \in CallCols :
    Input(addRectangleSelection(State, startR, startC, endR, endC),
          "addRectangleSelection", FALSE,
          IF addRectangleSelectionOK(State, startR, startC, endR, endC)
          THEN "ok" ELSE "rejected",
          <<startR, startC, endR, endC>>)

CallSelectColumn ==
  \E colIndex \in CallCols, includeHeader \in BOOLEAN, slow \in SlowOps :
    LET s == selectColumn(State, colIndex, includeHeader, slow)
    IN  Input(wrapSafely(s), "selectColumn", includeHeader,
              IF selectColumnRejects(State) THEN "rejected"
              ELSE IF s.thrown THEN "threw" ELSE "ok",
              <<colIndex>>)

CallSelectRow ==
  \E rowIndex \in CallRows, slow \in SlowOps :
    LET s == selectRow(State, rowIndex, slow)
    IN  Input(wrapSafely(s), "selectRow", FALSE,
              IF selectRowRejects(State, rowIndex) THEN "rejected"
              ELSE IF s.thrown THEN "threw" ELSE "ok",
              <<rowIndex>>)

CallClear ==
  Input(clear(State), "clear", FALSE, Outcome(State, clear(State)), <<>>)

CallEmergencyReset ==
  Input(emergencyReset(State), "emergencyReset", FALSE,
        Outcome(State, emergencyReset(State)), <<>>)

CallSetScope ==
  \E el \in {<<1, 0, 0>>, <<2, 0, 0>>} :
    Input(setScope(State, el), "setScope", FALSE,
          Outcome(State, setScope(State, el)), <<el>>)

\* SelectionState.paint() called; the step records the cells highlighted
\* when it was called
CallPaint ==
  \E slow \in SlowOps :
    Input(paint(State, slow), "paint", FALSE,
          IF selection = <<>> THEN "ok"
          ELSE ThrottleBranch(tPaint, paintThrottleMs, isOverloaded),
          <<hl>>)

\* Grid.getCell($scope, r, c) called; the step records what it returned
CallGetCell ==
  \E r \in (0 - MaxNegativeIndex)..MaxGridIndex,
     c \in (0 - MaxNegativeIndex)..MaxGridIndex :
    Input(State, "getCell", FALSE, "same", <<r, c, getCell(scope, r, c)>>)

\* Clipboard.copySelection(includeHeaders) called
CallCopySelection ==
  \E includeHeaders \in {"true", "false", "null"} :
    LET s == copySelection(State, includeHeaders)
    IN  Input(s, "copySelection", FALSE, Outcome(State, s),
              <<includeHeaders>>)

CallBatchPaint ==
  \E slow \in SlowOps :
    Input(batchPaint(State, slow), "batchPaint", FALSE,
          ThrottleBranch(tPaint, paintThrottleMs, isOverloaded), <<>>)

(***************************************************************************)
(* The input layer: events on the page, with the two calls of              *)
(* SelectionState that other code of the script makes.                     *)
(***************************************************************************)
Next ==
  \/ MouseDown
  \/ MouseMove
  \/ MouseUp
  \/ DoubleClick
  \/ KeyDown
  \/ KeyUp
  \/ CallSelectRow
  \/ CallEmergencyReset
  \/ MouseMoveTimer
  \/ BatchPaintTimer
  \/ StatsTimer
  \/ AnimationFrame
  \/ Tick

Spec == Init /\ [][Next]_vars

(***************************************************************************)
(* The programming interface: the operations of SelectionState called      *)
(* directly.                                                               *)
(***************************************************************************)
SpecCalls ==
  /\ InitWith(FALSE, MaxCalls)
  /\ [][\/ CallAddRectangleSelection
       \/ CallSelectColumn
       \/ CallSelectRow
       \/ CallClear
       \/ CallEmergencyReset
       \/ CallSetScope
       \/ BatchPaintTimer
       \/ StatsTimer
       \/ AnimationFrame
       \/ Tick]_vars

(***************************************************************************)
(* The throttled functions (batchPaint, updateStats, mouseMoveThrottled),  *)
(* called on a page that can be slow.                                      *)
(***************************************************************************)
SpecThrottle ==
  /\ InitWith(TRUE, MaxThrottleCalls)
  /\ [][\/ CallBatchPaint
       \/ CallSelectRow
       \/ CallEmergencyReset
       \/ MouseMove
       \/ MouseMoveTimer
       \/ BatchPaintTimer
       \/ StatsTimer
       \/ AnimationFrame
       \/ Tick]_vars

(***************************************************************************)
(* The throttled functions under the browser's scheduling: a timer that is *)
(* due fires, a requested animation frame runs, and the clock advances.    *)
(***************************************************************************)
SpecThrottleFair ==
  /\ InitWith(TRUE, MaxFairCalls)
  /\ [][\/ CallBatchPaint
       \/ CallSelectRow
       \/ MouseMove
       \/ MouseMoveTimer
       \/ BatchPaintTimer
       \/ StatsTimer
       \/ AnimationFrame
       \/ Tick]_vars
  /\ WF_vars(MouseMoveTimer)
  /\ WF_vars(BatchPaintTimer)
  /\ WF_vars(StatsTimer)
  /\ WF_vars(AnimationFrame)
  /\ WF_vars(Tick)

(***************************************************************************)
(* The error handler: errors of the page and of the wrapped listeners, the *)
(* key listeners, and a call of SelectionState, long enough for maxErrors  *)
(* to be exceeded and for an event to arrive afterwards.                   *)
(***************************************************************************)
SpecFaults ==
  /\ InitWith(FALSE, MaxFaultEvents)
  /\ [][\/ WindowError
       \/ MouseDown
       \/ MouseUp
       \/ KeyDown
       \/ KeyUp
       \/ CallSelectRow
       \/ BatchPaintTimer
       \/ StatsTimer
       \/ AnimationFrame
       \/ Tick]_vars

(***************************************************************************)
(* The drag gesture: pointer-down, drag updates and pointer-up, with the   *)
(* timers and frames of the render pipeline.                               *)
(***************************************************************************)
SpecDrag ==
  /\ InitWith(FALSE, MaxDragEvents)
  /\ [][\/ MouseDown
       \/ MouseMove
       \/ MouseUp
       \/ MouseMoveTimer
       \/ BatchPaintTimer
       \/ StatsTimer
       \/ AnimationFrame
       \/ Tick]_vars

(***************************************************************************)
(* The render pipeline: column and row selections, which paint, and        *)
(* further calls of paint with the Selection as it is.                     *)
(***************************************************************************)
SpecPaint ==
  /\ InitWith(FALSE, MaxPaintCalls)
  /\ [][\/ DoubleClick
       \/ CallSelectRow
       \/ CallPaint
       \/ BatchPaintTimer
       \/ StatsTimer
       \/ AnimationFrame
       \/ Tick]_vars

(***************************************************************************)
(* The statistics panel: rectangles added to the Selection and paint,      *)
(* which updates the panel.                                                *)
(***************************************************************************)
SpecStats ==
  /\ InitWith(FALSE, MaxStatsCalls)
  /\ [][\/ CallAddRectangleSelection
       \/ CallPaint
       \/ BatchPaintTimer
       \/ StatsTimer
       \/ AnimationFrame
       \/ Tick]_vars

(***************************************************************************)
(* Revisions 1.1.0 (src/unnamed/part_000) and 1.0.2 (the second script of  *)
(* smartgrid.user.js): drag and keyboard-navigation mode.  These revisions *)
(* paint synchronously and have no throttles.                              *)
(***************************************************************************)
\* events in one behaviour of the earlier revisions
MaxKeyboardEvents == 4
\* the column the cursor may be moved to at most
MaxCursorCol == 3

\* the empty jQuery set as $scope
NOSCOPE == -1

\* the focus lies in no cell while no cell of the page is visible
Hidden == <<0, 1>>

\* the elements that may hold the focus when a key is pressed
Focusable == {Outside, <<1, 1, 0>>, <<2, 0, 0>>, Orphan, Hidden}

\* the elements under the pointer
TargetsV110 == {<<1, 0, 0>>, <<1, 1, 1>>, <<1, 2, 0>>, Outside}

KeysV110 ==
  {"Escape", "k", "ArrowUp", "ArrowDown", "ArrowLeft", "ArrowRight", "Enter",
   "Alt"}

\* Grid.getRows($scope), as kept in scopeRows
ScopeRows(sc) == IF sc = NOSCOPE THEN <<>> ELSE getRows(sc)

\* rows.index($el.closest(SELECTORS.ROW))
getRowIndexV110(el, rows) ==
  IF el = Orphan THEN -1 ELSE getRowIndex(el, rows)

\* $el.closest(ROW).children(CELL).index($el.closest(CELL))
getColumnIndexV110(el) == IF el = Orphan THEN -1 ELSE getColumnIndex(el)

\* $scope.find(ROW).eq(r).children(CELL).eq(c)
getCellV110(sc, r, c) == Eq(Children(Eq(ScopeRows(sc), r)), c)

\* Utils.getCellText of 1.1.0: the empty text for an empty jQuery object
getCellTextV110(cell) == IF cell = Absent THEN <<>> ELSE TextOf(cell)

formatAsTSVV110(sc, sel) ==
  LET rs == RowIndices(sel)
      line(r) ==
        LET cs == ColsOfRow(sel, r)
        IN  Join([i \in 1..Len(cs) |->
                    getCellTextV110(getCellV110(sc, r, cs[i]))], TAB)
  IN  Join([i \in 1..Len(rs) |-> line(rs[i])], NL)

\* the state of an earlier revision as one record
StateV110 ==
  [scope |-> scope, selection |-> selection, dragging |-> dragging,
   startRow |-> startRow, startCol |-> startCol,
   currentRow |-> currentRow, currentCol |-> currentCol,
   modifierHeld |-> modifierHeld, keyboardMode |-> keyboardMode,
   selectingMode |-> selectingMode, hl |-> hl, clipboard |-> clipboard,
   thrown |-> FALSE]

\* SelectionState.paint of 1.1.0
paintV110(s) ==
  [s EXCEPT !.hl =
     {el \in @ : s.scope = NOSCOPE \/ ~InScope(el, s.scope)}
       \cup ({getCellV110(s.scope, k[1], k[2]) : k \in Range(s.selection)}
               \ {Absent})]

clearV110(s) == paintV110([s EXCEPT !.selection = <<>>])

setScopeV110(s, el) ==
  [s EXCEPT !.scope = IF el = Orphan THEN DOCUMENT ELSE ClosestScope(el)]

addRectangleSelectionV110(s, startR, startC, endR, endC) ==
  [s EXCEPT !.selection =
     SetAddAll(@, getRectangleKeysV110(startR, startC, endR, endC))]

startDragV110(s, cell) ==
  LET s1 == setScopeV110(s, cell)
      r == getRowIndexV110(cell, ScopeRows(s1.scope))
      c == getColumnIndexV110(cell)
  IN  [s1 EXCEPT !.startRow = r, !.currentRow = r,
                 !.startCol = c, !.currentCol = c, !.dragging = TRUE]

updateDragV110(s, cell, extending) ==
  LET s1 == [s EXCEPT !.currentRow = getRowIndexV110(cell, ScopeRows(s.scope)),
                      !.currentCol = getColumnIndexV110(cell)]
      s2 == IF ~extending THEN [s1 EXCEPT !.selection = <<>>] ELSE s1
  IN  paintV110(addRectangleSelectionV110(s2, s2.startRow, s2.startCol,
                                          s2.currentRow, s2.currentCol))

endDragV110(s) ==
  paintV110([s EXCEPT !.dragging = FALSE, !.selectingMode = FALSE])

copySelectionV110(s) ==
  IF Len(s.selection) = 0 THEN s
  ELSE [s EXCEPT !.clipboard = formatAsTSVV110(s.scope, s.selection)]

handleMouseDownV110(s, target, primary, shift) ==
  IF ~primary \/ ClosestCell(target) = Absent THEN s
  ELSE LET s1 == startDragV110(s, ClosestCell(target))
           s2 == IF ~shift THEN [s1 EXCEPT !.selection = <<>>] ELSE s1
           s3 == addRectangleSelectionV110(s2, s2.startRow, s2.startCol,
                                           s2.currentRow, s2.currentCol)
       IN  [paintV110(s3) EXCEPT !.selectingMode = TRUE]

handleMouseMoveV110(s, target, shift) ==
  IF ~s.dragging \/ ClosestCell(target) = Absent THEN s
  ELSE updateDragV110(s, ClosestCell(target), shift)

handleMouseUpV110(s, target) ==
  IF ~s.dragging THEN s
  ELSE LET s1 == endDragV110(s)
           text == getCellTextV110(ClosestCell(target))
       IN  IF isSingleCell(s1)
           THEN IF text # <<>> THEN [s1 EXCEPT !.clipboard = text] ELSE s1
           ELSE copySelectionV110(s1)

\* an Escape that clears Selection in either mode
handleEscapeKeyClears(s) ==
  clearV110([s EXCEPT !.keyboardMode = FALSE])

handleEscapeKey(s) ==
  IF s.keyboardMode THEN paintV110([s EXCEPT !.keyboardMode = FALSE])
  ELSE clearV110(s)

\* the cell keyboard mode starts from: the one that holds the focus, or
\* $(SELECTORS.CELL).filter(":visible").first(), the first cell of table 1
KeyboardCell(focused) ==
  IF focused = Hidden THEN Absent
  ELSE IF ClosestCell(focused) # Absent THEN ClosestCell(focused)
  ELSE <<1, 0, 0>>

initKeyboardMode(s, focused) ==
  LET cell == KeyboardCell(focused)
      s1 == setScopeV110(s, cell)
      r == getRowIndexV110(cell, ScopeRows(s1.scope))
      c == getColumnIndexV110(cell)
  IN  IF cell = Absent THEN [s EXCEPT !.keyboardMode = FALSE]
      ELSE paintV110([s1 EXCEPT !.startRow = r, !.currentRow = r,
                                !.startCol = c, !.currentCol = c,
                                !.selection = <<<<r, c>>>>])

handleKeyboardToggle(s, focused) ==
  IF ~s.keyboardMode
  THEN initKeyboardMode([s EXCEPT !.keyboardMode = TRUE], focused)
  ELSE clearV110([s EXCEPT !.keyboardMode = FALSE])

Arrows == {"ArrowUp", "ArrowDown", "ArrowLeft", "ArrowRight"}

\* the cursor after an arrow key, as both revisions compute it
CursorAfter(s, key) ==
  LET d == IF key \in {"ArrowUp", "ArrowLeft"} THEN -1 ELSE 1
  IN  IF key \in {"ArrowUp", "ArrowDown"}
      THEN [s EXCEPT !.currentRow =
              Max(0, Min(Len(ScopeRows(s.scope)) - 1, @ + d))]
      ELSE [s EXCEPT !.currentCol = Max(0, @ + d)]

\* an arrow key throws after the Selection is painted when the cursor
\* resolves to no cell: getCell(...)[0] is undefined
handleKeyboardNavigation(s, key) ==
  IF key \in Arrows
  THEN LET s1 == CursorAfter(s, key)
           s2 == addRectangleSelectionV110([s1 EXCEPT !.selection = <<>>],
                   s1.startRow, s1.startCol, s1.currentRow, s1.currentCol)
       IN  [paintV110(s2) EXCEPT !.thrown =
              getCellV110(s1.scope, s1.currentRow, s1.currentCol) = Absent]
  ELSE IF key = "Enter"
  THEN paintV110(copySelectionV110([s EXCEPT !.keyboardMode = FALSE]))
  ELSE s

handleKeyDownV110(s, key, primary, focused) ==
  IF key = "Escape" THEN handleEscapeKey(s)
  ELSE IF primary /\ key = "k" THEN handleKeyboardToggle(s, focused)
  ELSE IF s.keyboardMode THEN handleKeyboardNavigation(s, key)
  ELSE IF primary /\ ~s.modifierHeld
  THEN [s EXCEPT !.modifierHeld = TRUE, !.selectingMode = TRUE]
  ELSE s

handleKeyUpV110(s, primary) ==
  IF ~primary
  THEN [s EXCEPT !.modifierHeld = FALSE,
                 !.selectingMode = IF ~s.dragging THEN FALSE ELSE @]
  ELSE s

\* the keydown listener of 1.0.2: the toggle takes the scope from the closest
\* table with no fall-back to the document, and a key that keyboard mode
\* does not handle falls through to the modifier branch
keydownV102(s, key, primary, focused) ==
  IF key = "Escape"
  THEN IF s.keyboardMode THEN paintV110([s EXCEPT !.keyboardMode = FALSE])
       ELSE paintV110([s EXCEPT !.selection = <<>>])
  ELSE IF primary /\ key = "k"
  THEN IF ~s.keyboardMode
       THEN LET cell == KeyboardCell(focused)
                sc == IF cell = Orphan THEN NOSCOPE ELSE ClosestScope(cell)
                r == getRowIndexV110(cell, ScopeRows(sc))
                c == getColumnIndexV110(cell)
            IN  IF cell = Absent THEN s
                ELSE paintV110([s EXCEPT !.keyboardMode = TRUE, !.scope = sc,
                                         !.startRow = r, !.currentRow = r,
                                         !.startCol = c, !.currentCol = c,
                                         !.selection = <<<<r, c>>>>])
       ELSE paintV110([s EXCEPT !.keyboardMode = FALSE,
                                !.selection = <<>>])
  ELSE IF s.keyboardMode /\ key \in Arrows \cup {"Enter"}
  THEN handleKeyboardNavigation(s, key)
  ELSE IF primary /\ ~s.modifierHeld
  THEN [s EXCEPT !.modifierHeld = TRUE, !.selectingMode = TRUE]
  ELSE s

\* a step of an earlier revision to state record s
BecomesV110(s, op, ext, arg) ==
  /\ left > 0
  /\ left' = left - 1
  /\ scope' = s.scope
  /\ selection' = s.selection
  /\ dragging' = s.dragging
  /\ startRow' = s.startRow /\ startCol' = s.startCol
  /\ currentRow' = s.currentRow /\ currentCol' = s.currentCol
  /\ modifierHeld' = s.modifierHeld
  /\ keyboardMode' = s.keyboardMode
  /\ selectingMode' = s.selectingMode
  /\ hl' = s.hl
  /\ clipboard' = s.clipboard
  /\ last' = [op |-> op, ext |-> ext,
              res |-> IF s.thrown THEN "threw" ELSE "ok", arg |-> arg]
  /\ UNCHANGED <<enabled, errorCount, frameDropCount, isOverloaded,
                 paintQueue, unpaintQueue, raf, tMove, tPaint, tStats,
                 moveArg, statsArg, slowPage, revision>>

MouseDownV110 ==
  /\ revision = "1.1.0"
  /\ \E target \in TargetsV110, primary, shift \in BOOLEAN :
       BecomesV110(handleMouseDownV110(StateV110, target, primary, shift),
                   "mousedown", shift, <<target>>)

MouseMoveV110 ==
  /\ revision = "1.1.0"
  /\ \E target \in TargetsV110, shift \in BOOLEAN :
       BecomesV110(handleMouseMoveV110(StateV110, target, shift),
                   "mousemove", shift, <<target>>)

MouseUpV110 ==
  /\ revision = "1.1.0"
  /\ \E target \in TargetsV110 :
       BecomesV110(handleMouseUpV110(StateV110, target), "mouseup", FALSE,
                   <<target>>)

\* the cursor column has no upper bound in the code; the behaviours stop
\* moving it right at MaxCursorCol
KeyDownV110 ==
  /\ revision = "1.1.0"
  /\ \E key \in KeysV110, primary \in BOOLEAN, focused \in Focusable :
       /\ key = "ArrowRight" => currentCol < MaxCursorCol
       /\ BecomesV110(handleKeyDownV110(StateV110, key, primary, focused),
                      "keydown", primary, <<key, keyboardMode, focused>>)

KeyUpV110 ==
  /\ revision = "1.1.0"
  /\ \E primary \in BOOLEAN :
       BecomesV110(handleKeyUpV110(StateV110, primary), "keyup", primary,
                   <<>>)

KeyDownV102 ==
  /\ revision = "1.0.2"
  /\ \E key \in KeysV110, primary \in BOOLEAN, focused \in Focusable :
       /\ key = "ArrowRight" => currentCol < MaxCursorCol
       /\ BecomesV110(keydownV102(StateV110, key, primary, focused),
                      "keydown", primary, <<key, keyboardMode, focused>>)

\* the state after init() of a revision in revs
InitRevisions(revs, budget) ==
  /\ revision \in revs
  /\ left = budget
  /\ slowPage = FALSE
  /\ enabled = TRUE
  /\ errorCount = 0
  /\ frameDropCount = 0
  /\ isOverloaded = FALSE
  /\ scope = DOCUMENT
  /\ selection = <<>>
  /\ dragging = FALSE
  /\ startRow = NULL /\ startCol = NULL
  /\ currentRow = NULL /\ currentCol = NULL
  /\ modifierHeld = FALSE
  /\ keyboardMode = FALSE
  /\ selectingMode = FALSE
  /\ paintQueue = <<>>
  /\ unpaintQueue = <<>>
  /\ hl = {}
  /\ raf = <<>>
  /\ tMove = ThrottleInit(mouseMoveMs)
  /\ tPaint = ThrottleInit(paintThrottleMs)
  /\ tStats = ThrottleInit(statsThrottleMs)
  /\ moveArg = NoMoveArg
  /\ statsArg = DOCUMENT
  /\ clipboard = NoClip
  /\ last = [op |-> "init", ext |-> FALSE, res |-> "ok", arg |-> <<>>]

SpecKeyboard ==
  /\ InitRevisions({"1.1.0", "1.0.2"}, MaxKeyboardEvents)
  /\ [][\/ MouseDownV110
       \/ MouseMoveV110
       \/ MouseUpV110
       \/ KeyDownV110
       \/ KeyUpV110
       \/ KeyDownV102]_vars

(***************************************************************************)
(* A gesture followed event by event, long enough for two drags with a     *)
(* pointer-move of the first still held by the mouse-move throttle.        *)
(***************************************************************************)
SpecGesture ==
  /\ InitWith(FALSE, MaxGestureEvents)
  /\ [][\/ DragMouseDown
       \/ DragMouseMove
       \/ DragMouseUp
       \/ MouseMoveTimer
       \/ BatchPaintTimer
       \/ StatsTimer
       \/ AnimationFrame
       \/ Tick]_vars

(***************************************************************************)
(* The choice of the adapter (part_000 lines 228-266, smartgrid.user.js    *)
(* lines 291-300).                                                         *)
(***************************************************************************)
\* calls in one behaviour of the resolver
MaxAdapterCalls == 4

\* the structural markers a scope can carry: .ReactVirtualized__Table,
\* .ag-root-wrapper, .rt-table, .dataTables_wrapper
Markers == {"virtualized", "ag", "rt", "dataTables"}

\* Grid.detectGridType of 1.1.0
detectGridType(markers) ==
  IF "virtualized" \in markers THEN "reactVirtualized"
  ELSE IF "ag" \in markers THEN "agGrid"
  ELSE IF "rt" \in markers THEN "reactTable"
  ELSE IF "dataTables" \in markers THEN "default"
  ELSE "default"

\* Grid.adapter after Grid.setAdapter($scope) of a revision
setAdapter(rev, markers) ==
  IF rev = "1.1.0" THEN detectGridType(markers) ELSE "default"

\* Grid.setAdapter called on a scope that carries markers; the step records
\* the adapter chosen
CallSetAdapter ==
  \E markers \in SUBSET Markers :
    Input(State, "setAdapter", FALSE, "same",
          <<markers, setAdapter(revision, markers)>>)

SpecAdapter ==
  /\ InitRevisions({"1.1.0", "2.0.0"}, MaxAdapterCalls)
  /\ [][CallSetAdapter]_vars

(***************************************************************************)
(* The export: selections built by the programming interface in any order *)
(* of insertion, and copySelection under each header policy.               *)
(***************************************************************************)
SpecCopy ==
  /\ InitWith(FALSE, MaxCopyCalls)
  /\ [][\/ CallAddRectangleSelection
       \/ CallSelectColumn
       \/ CallSetScope
       \/ CallCopySelection
       \/ BatchPaintTimer
       \/ StatsTimer
       \/ AnimationFrame
       \/ Tick]_vars

(***************************************************************************)
(* The default adapter: getCell called with any pair of indices, under     *)
(* each scope.                                                             *)
(***************************************************************************)
SpecGrid ==
  /\ InitWith(FALSE, MaxGridCalls)
  /\ [][\/ CallSetScope
       \/ CallGetCell]_vars

(***************************************************************************)
(* Properties.                                                             *)
(***************************************************************************)
\* the coordinates of the closed rectangle spanned by two corners
Rect(r1, c1, r2, c2) ==
  {<<r, c>> : r \in Min(r1, r2)..Max(r1, r2), c \in Min(c1, c2)..Max(c1, c2)}

Abs(n) == IF n < 0 THEN -n ELSE n

RectSize(r1, c1, r2, c2) == (Abs(r2 - r1) + 1) * (Abs(c2 - c1) + 1)

PointerOps == {"mousedown", "mousemove", "mousemove-timer"}

\* C1: after any sequence of pointer-down, throttled pointer-move,
\* pointer-up, double-click column selection, selectRow, Escape and
\* emergencyReset, SelectionState.selection never holds more than
\* CONFIG.maxSelectionSize coordinates.
C1_SelectionWithinCeiling ==
  Cardinality(Range(selection)) <= maxSelectionSize

\* C1 witness: the selection is full and an event has just been rejected
\* for capacity.
C1_FullAndRejected ==
  /\ Len(selection) = maxSelectionSize
  /\ last.res = "rejected"
  /\ last.op \in PointerOps

\* C2: a pointer-down or a drag update (with or without the extend
\* modifier) whose rectangle is rejected for capacity leaves Selection
\* exactly as it was before the event.
C2_RejectedEventKeepsSelection ==
  [][(last'.op \in PointerOps /\ last'.res = "rejected")
       => selection' = selection]_vars

\* C3: a direct call of addRectangleSelection, selectColumn or selectRow
\* that rejects for capacity leaves Selection and UI.paintQueue identical,
\* and addRectangleSelection returns false.
C3_RejectedCallChangesNothing ==
  [][/\ (/\ last'.op = "addRectangleSelection"
          /\ \/ RectSize(last'.arg[1], last'.arg[2], last'.arg[3],
                         last'.arg[4]) > maxSelectionSize
             \/ Len(selection) + RectSize(last'.arg[1], last'.arg[2],
                                          last'.arg[3], last'.arg[4])
                  > maxSelectionSize)
         => /\ ~addRectangleSelectionOK(State, last'.arg[1], last'.arg[2],
                                        last'.arg[3], last'.arg[4])
            /\ selection' = selection
            /\ paintQueue' = paintQueue
     /\ (/\ last'.op = "selectColumn"
          /\ Len(getRows(scope)) > maxSelectionSize)
         => (selection' = selection /\ paintQueue' = paintQueue)
     /\ (/\ last'.op = "selectRow"
          /\ Len(Children(Eq(getRows(scope), last'.arg[1])))
               > maxSelectionSize)
         => (selection' = selection /\ paintQueue' = paintQueue)]_vars

\* C3 witness: a direct addRectangleSelection has just been rejected while
\* cells were selected and queued for painting.
C3_RejectedWithSelection ==
  /\ last.op = "addRectangleSelection"
  /\ last.res = "rejected"
  /\ selection # <<>>
  /\ paintQueue # <<>>

\* the operation of the last step was a direct addRectangleSelection
\* (corners in last.arg)
IsAdd(l) == l.op = "addRectangleSelection"

\* C4: addRectangleSelection fails if and only if the union of the current
\* Selection with the rectangle would hold more than maxSelectionSize
\* coordinates, so an add that overlaps the Selection succeeds whenever the
\* union still fits.
C4_FailsIffUnionExceeds ==
  [][IsAdd(last')
       => (last'.res = "rejected"
             <=> Cardinality(Range(selection) \cup
                             Rect(last'.arg[1], last'.arg[2],
                                  last'.arg[3], last'.arg[4]))
                   > maxSelectionSize)]_vars

\* C5: for corners whose rectangle fits the ceiling, a successful
\* addRectangleSelection makes Selection the old Selection united with
\* exactly the (|r2-r1|+1) x (|c2-c1|+1) coordinates between the min and
\* the max of the corners on both axes, the call made with the corners
\* swapped gives the same Selection, and the v1.1.0 getRectangleKeys yields
\* the same coordinates; a call whose keys fit beside the Selection succeeds.
C5_AddsExactlyTheRectangle ==
  [][IsAdd(last')
       => LET r1 == last'.arg[1]
              c1 == last'.arg[2]
              r2 == last'.arg[3]
              c2 == last'.arg[4]
          IN  /\ last'.res = "ok"
                   => /\ Range(selection') = Range(selection) \cup
                                               Rect(r1, c1, r2, c2)
                      /\ Cardinality(Rect(r1, c1, r2, c2)) =
                           RectSize(r1, c1, r2, c2)
                      /\ Len(getRectangleKeys(r1, c1, r2, c2)) =
                           RectSize(r1, c1, r2, c2)
                      /\ addRectangleSelection(State, r2, c2, r1, c1).selection
                           = selection'
                      /\ Range(getRectangleKeysV110(r1, c1, r2, c2)) =
                           Rect(r1, c1, r2, c2)
                      /\ getRectangleKeysV110(r2, c2, r1, c1) =
                           getRectangleKeysV110(r1, c1, r2, c2)
              /\ Len(selection) + RectSize(r1, c1, r2, c2)
                   <= maxSelectionSize
                   => last'.res = "ok"]_vars

\* C5 witness: a rectangle given bottom row first has just been added to a
\* Selection that held other coordinates.
C5_ReversedCornersAdded ==
  /\ IsAdd(last)
  /\ last.res = "ok"
  /\ last.arg[1] > last.arg[3]
  /\ Len(selection) > RectSize(last.arg[1], last.arg[2],
                               last.arg[3], last.arg[4])

\* the step recorded in l ran SelectionState.emergencyReset: called
\* directly, or by ErrorHandler.handleError once errorCount exceeds
\* maxErrors (the errorCount given is the one after the step)
EmergencyResetRan(l, errors) ==
  l.op = "emergencyReset" \/ (l.res = "threw" /\ errors > maxErrors)

\* C6: SelectionState.dragging becomes true only on a left-button
\* pointer-down over a cell with the activation modifier held while the
\* input layer is enabled; it becomes false only on pointer-up or
\* emergencyReset; pointer-move, double-click, Escape/clear and key events
\* never change it (short of the error handler running emergencyReset
\* within their step).
C6_DragLifecycle ==
  [][/\ (~dragging /\ dragging')
         => /\ last'.op = "mousedown"
            /\ ClosestCell(last'.arg[1]) # Absent
            /\ last'.arg[2] = 0
            /\ last'.arg[3]
            /\ enabled
     /\ (dragging /\ ~dragging')
         => (last'.op = "mouseup" \/ EmergencyResetRan(last', errorCount'))
     /\ (/\ last'.op \in {"mousemove", "mousemove-timer", "dblclick",
                          "escape", "clear", "keydown", "keyup"}
         /\ ~EmergencyResetRan(last', errorCount'))
         => dragging' = dragging]_vars

\* C6 witness: a drag that pointer-move, a key or a double-click went
\* through has been ended by pointer-up.
C6_DragEnded ==
  /\ ~dragging
  /\ last.op = "mouseup"
  /\ startRow # currentRow

\* the cell of the move recorded in l resolves to the current drag coordinate
MoveToCurrent(l) ==
  /\ l.op \in {"mousemove", "mousemove-timer"}
  /\ l.res \in {"same", "ok", "rejected"}
  /\ getRowIndex(ClosestCell(l.arg[1]), getRows(scope)) = currentRow
  /\ getColumnIndex(ClosestCell(l.arg[1])) = currentCol

\* C7: updateDrag called with a cell that resolves to the current drag
\* coordinate changes nothing: Selection, currentRow/currentCol, paintQueue
\* and unpaintQueue are unchanged and no batchPaint runs or is scheduled.
C7_SameCellIsNoOp ==
  [][MoveToCurrent(last')
       => /\ last'.res = "same"
          /\ selection' = selection
          /\ currentRow' = currentRow /\ currentCol' = currentCol
          /\ paintQueue' = paintQueue
          /\ unpaintQueue' = unpaintQueue
          /\ tPaint' = tPaint
          /\ raf' = raf
          /\ hl' = hl]_vars

\* C7 witness: during a drag over several cells, a move onto the current
\* cell has just been handled.
C7_SameCellMoved ==
  /\ dragging
  /\ last.op \in {"mousemove", "mousemove-timer"}
  /\ last.res = "same"
  /\ Len(selection) > 1

\* C8: during a drag, after a pointer-down or an effective drag update
\* without the extend modifier whose rectangle fits the ceiling, Selection
\* is exactly rectangle(start, current); with the extend modifier, when the
\* previous Selection united with rectangle(start, current) fits the
\* ceiling, Selection is that union.
C8_DragSelectsRectangle ==
  [][(last'.op \in PointerOps /\ last'.res \in {"ok", "rejected"})
       => LET rect == Rect(startRow', startCol', currentRow', currentCol')
          IN  /\ (~last'.ext /\ Cardinality(rect) <= maxSelectionSize)
                  => Range(selection') = rect
              /\ (last'.ext /\ Cardinality(Range(selection) \cup rect)
                                 <= maxSelectionSize)
                  => Range(selection') = Range(selection) \cup rect]_vars

\* the rows of a scope, by index, that have a cell at column c and are kept
\* by includeHeader
ColumnRows(sc, c, includeHeader) ==
  {r \in 0..(Len(getRows(sc)) - 1) :
     /\ c < CellCount(getRows(sc)[r + 1])
     /\ includeHeader \/ ~InThead(getRows(sc)[r + 1])}

\* C9: selectColumn(c, includeHeader) on a scope whose row count fits the
\* ceiling replaces Selection with exactly the coordinates (r, c) of the
\* rows r that have a cell at column c, leaving out the header rows when
\* includeHeader is false.
C9_SelectColumnExact ==
  [][(last'.op = "selectColumn" /\ Len(getRows(scope)) <= maxSelectionSize)
       => /\ Range(selection') =
               {<<r, last'.arg[1]>> :
                  r \in ColumnRows(scope, last'.arg[1], last'.ext)}
          /\ Len(selection') =
               Cardinality(ColumnRows(scope, last'.arg[1], last'.ext))]_vars

\* C9 witness: selectColumn(0, false) on table 1 (one header row, then data
\* rows) has selected one coordinate per data row and none of the header row.
C9_DataColumnSelected ==
  /\ last.op = "selectColumn" /\ last.res = "ok" /\ ~last.ext
  /\ last.arg = <<0>>
  /\ scope = 1
  /\ Len(selection) = Len(getRows(1)) - 1
  /\ \A k \in Range(selection) : ~IsHeaderRowAt(1, k[1])

Throttles == <<tMove, tPaint, tStats>>

\* C10: for every throttled function, two consecutive executions of fn are
\* at least ms apart on the clock, and at most one trailing timer is pending
\* at any time.
C10_ThrottleSpacing ==
  \A i \in 1..3 :
    /\ ~Throttles[i].early
    /\ Len(Throttles[i].timers) <= 1
    /\ Throttles[i].sched <=> Throttles[i].timers # <<>>

\* C10 witness: on an overloaded page the trailing timer of batchPaint has
\* just run fn.
C10_TrailingRunOverloaded ==
  /\ last.op = "paint-timer"
  /\ isOverloaded
  /\ tPaint.idle = 0

\* What one call of a throttled function does to its throttle state, from t
\* to u, at base interval ms: run fn at once when the window is over and no
\* trailing call is pending; set the one trailing timer, due when the window
\* ends, when it is the first call inside the window; nothing otherwise.
BurstCall(t, u, ms) ==
  LET eff == IF isOverloaded THEN 2 * ms ELSE ms
  IN  IF t.timers # <<>> THEN u = t
      ELSE IF t.idle >= eff
      THEN u.idle = 0 /\ u.timers = <<>>
      ELSE u.idle = t.idle /\ u.timers = <<eff - t.idle>>

\* the trailing timer of a throttle fires: fn runs once, no timer is left
TrailingRun(t, u) ==
  t.timers # <<>> /\ Head(t.timers) = 0 /\ u.idle = 0 /\ u.timers = <<>>

\* C11: in a burst of calls to a throttled function that starts at least
\* one (effective) interval after the previous execution, the first call
\* executes fn synchronously, and the further calls inside the window
\* together cause exactly one trailing execution: the first of them sets
\* the timer, the others do nothing, and the timer runs fn once.
C11_LeadingAndOneTrailing ==
  [][/\ last'.op = "batchPaint" => BurstCall(tPaint, tPaint', paintThrottleMs)
     /\ last'.op = "mousemove" => BurstCall(tMove, tMove', mouseMoveMs)
     /\ last'.op = "paint-timer" => TrailingRun(tPaint, tPaint')
     /\ last'.op = "mousemove-timer" => TrailingRun(tMove, tMove')
     /\ last'.op = "stats-timer" => TrailingRun(tStats, tStats')
     /\ last'.op \in {"tick", "raf"}
          => \A i \in 1..3 : /\ Throttles'[i].idle # 0 \/ Throttles[i].idle = 0
                             /\ Len(Throttles'[i].timers) =
                                Len(Throttles[i].timers)]_vars

\* C11 witness: batchPaint ran at once, a call inside the window set the
\* trailing timer, and that timer has just run fn a second time.
C11_BurstCompleted ==
  /\ last.op = "paint-timer"
  /\ ~isOverloaded
  /\ frameDropCount = 0
  /\ tPaint.idle = 0
  /\ tPaint.timers = <<>>
  /\ left = MaxThrottleCalls - 2

\* base intervals of the three throttled functions, in the order of Throttles
BaseMs == <<mouseMoveMs, paintThrottleMs, statsThrottleMs>>

\* Nothing is pending and no throttled function has run for longer than its
\* longest window: the clock has gone on for 2*ms ticks or more with no
\* measured operation at all, and more time changes nothing in the state.
QuietForLong ==
  /\ raf = <<>>
  /\ \A i \in 1..3 : /\ Throttles[i].timers = <<>>
                     /\ Throttles[i].idle >= 2 * BaseMs[i]
                     /\ Throttles[i].since >= 2 * BaseMs[i]

\* C12: after the adaptive backoff has tripped, a sufficiently long period
\* with no operation over the 16 ms budget returns the throttle to its base
\* interval: once the page has been quiet for long, isOverloaded is false.
C12_QuietPeriodRecovers ==
  QuietForLong => ~isOverloaded

\* the interval the claim gives a throttle of base interval ms: doubled when
\* more than frameDropLimit slow operations were measured since the last reset
ClaimedInterval(ms) == IF frameDropCount > frameDropLimit THEN 2 * ms ELSE ms

\* a call of a throttle with no trailing call pending compares the time since
\* the last execution with the claimed interval and sets its timer by it
UsesInterval(t, u, ms) ==
  \/ t.sched
  \/ /\ ~t.sched
     /\ IF t.since >= ClaimedInterval(ms)
        THEN u.since = 0 /\ u.timers = <<>>
        ELSE u.since = t.since
             /\ u.timers = <<ClaimedInterval(ms) - t.since>>

\* C13: a throttled function uses an effective interval of exactly 2*ms
\* when, and only when, more than 3 operations measured by
\* Performance.measure took longer than 16 ms since the last
\* Performance.reset, and ms otherwise; no delay is ever longer than 2*ms.
C13_DoubledIffOverThreeSlow ==
  [][/\ isOverloaded' <=> frameDropCount' > frameDropLimit
     /\ last'.op = "batchPaint" => UsesInterval(tPaint, tPaint', paintThrottleMs)
     /\ last'.op = "mousemove" => UsesInterval(tMove, tMove', mouseMoveMs)
     /\ \A i \in 1..3 : \A k \in DOMAIN Throttles'[i].timers :
          Throttles'[i].timers[k] <= 2 * BaseMs[i]
     /\ \A i \in 1..3 : \A k \in DOMAIN Throttles'[i].timers :
          Throttles'[i].timers[k] > BaseMs[i] => frameDropCount' > frameDropLimit
                                                 \/ Throttles[i].timers # <<>>]_vars

\* C13 witness: with a fourth slow operation measured, a call of batchPaint
\* right after an execution has set its timer to more than the base interval.
C13_DoubledTimerSet ==
  /\ last.op = "batchPaint"
  /\ last.res = "schedule"
  /\ frameDropCount > frameDropLimit
  /\ tPaint.timers # <<>>
  /\ Head(tPaint.timers) > paintThrottleMs

\* the steps of the listeners registered through ErrorHandler.wrapSafely
WrappedOps == {"mousedown", "mouseup", "dblclick", "escape", "keydown", "keyup"}

\* C14: every exception caught by ErrorHandler.wrapSafely around a handler,
\* whatever its message, triggers emergencyReset: right after the handler's
\* step Selection is empty, dragging is false and the paint and unpaint
\* queues are empty.
C14_CaughtFaultResets ==
  [][(last'.op \in WrappedOps /\ last'.res = "threw")
       => /\ selection' = <<>>
          /\ ~dragging'
          /\ paintQueue' = <<>>
          /\ unpaintQueue' = <<>>]_vars

\* the steps of pointer and keyboard events
EventOps == WrappedOps \cup {"mousemove", "mousemove-timer"}

\* C15: once more than ErrorHandler.maxErrors faults have been handled, the
\* input layer is disabled for the rest of the session: enabled stays false,
\* and no later pointer or keyboard event (mouse-down, mouse-move, mouse-up,
\* double-click, key-down including Escape, key-up) changes Selection,
\* dragging, modifierHeld or the selecting-mode flag, or writes the
\* clipboard.
C15_DisabledInputChangesNothing ==
  [][(errorCount > maxErrors /\ ~enabled)
       => /\ ~enabled'
          /\ last'.op \in EventOps
               => /\ selection' = selection
                  /\ dragging' = dragging
                  /\ modifierHeld' = modifierHeld
                  /\ selectingMode' = selectingMode
                  /\ clipboard' = clipboard]_vars

\* a handler that has just thrown, in the current state
Thrown == [State EXCEPT !.thrown = TRUE]

\* C16: every gesture-driven handler registered by EventHandlers
\* (mouse-down, mouse-move, mouse-up, double-click, key-down, key-up) runs
\* inside ErrorHandler.wrapSafely: an exception thrown in any of them is
\* delivered to ErrorHandler.handleError and does not leave the listener.
C16_EveryListenerCatches ==
  \A h \in GestureHandlers :
    /\ Listener(h, Thrown) = handleError(Thrown)
    /\ ~Listener(h, Thrown).thrown

\* the forced releases: the drag, the modifier and the backoff counters
Released(s) ==
  [s EXCEPT !.dragging = FALSE, !.modifierHeld = FALSE,
            !.frameDropCount = 0, !.isOverloaded = FALSE]

\* what emergencyReset is said to yield
ResetYields ==
  /\ selection = <<>>
  /\ ~dragging
  /\ ~modifierHeld
  /\ paintQueue = <<>>
  /\ unpaintQueue = <<>>
  /\ frameDropCount = 0
  /\ ~isOverloaded

ClearOps == {"escape", "clear", "emergencyReset"}

\* the steps that run a timer or an animation-frame callback
CallbackOps == {"raf", "paint-timer", "stats-timer", "mousemove-timer"}

\* no timer and no animation-frame callback is pending
Quiescent ==
  /\ raf = <<>>
  /\ \A i \in 1..3 : Throttles[i].timers = <<>>

\* C18: after clear() (Escape) or emergencyReset(), with no further input,
\* once every timer and animation-frame callback that was pending at the
\* time of the call has run, no cell carries the highlight class and the
\* paint queue is empty.  Stated for the behaviours in which one callback
\* was pending: when it has run and nothing is pending, the render state is
\* empty.
C18_ClearedStaysEmpty ==
  [][(last.op \in ClearOps /\ last'.op \in CallbackOps /\ Quiescent')
       => hl' = {} /\ paintQueue' = <<>>]_vars

\* the cells the Selection's coordinates resolve to in the current scope
SelectedCells ==
  {getCell(scope, k[1], k[2]) : k \in Range(selection)} \ {Absent}

\* every coordinate of the Selection resolves to a cell of the current scope
AllResolvable ==
  \A k \in Range(selection) : getCell(scope, k[1], k[2]) # Absent

\* C19: when Selection holds more resolvable coordinates than
\* CONFIG.maxPaintCells and no further input arrives, the cells a flush
\* leaves out are painted on subsequent ticks: when no timer and no
\* animation-frame callback is pending any more, every selected cell is
\* highlighted.
C19_RemainderPaintedLater ==
  (/\ Quiescent
   /\ AllResolvable
   /\ Cardinality(SelectedCells) > maxPaintCells)
    => SelectedCells \subseteq hl

\* the highlighted cells of the current scope
HighlightedInScope == {e \in hl : InScope(e, scope)}

\* C20: after any drag gesture (pointer-down, any number of drag updates to
\* different cells at any spacing relative to the paint throttle,
\* pointer-up) on a selection of at most maxPaintCells cells, once all
\* pending timers and animation-frame callbacks have run, the highlighted
\* cells of the scope are exactly the cells the Selection's coordinates
\* resolve to.  Stated for the gestures that end with a Selection and whose
\* last flush emptied the paint queue.
C20_HighlightsEqualSelection ==
  (/\ startRow # NULL
   /\ ~dragging
   /\ Quiescent
   /\ paintQueue = <<>>
   /\ selection # <<>>
   /\ Len(selection) <= maxPaintCells)
    => HighlightedInScope = SelectedCells

\* C21: paint is idempotent: paint called again with an unchanged
\* Selection, once its flush and animation-frame callback have completed,
\* leaves the same set of highlighted cells as before the call, for every
\* Selection size up to maxSelectionSize.  Stated for the calls made when
\* the throttle window is over, whose flush runs at once.
C21_PaintIdempotent ==
  [][(/\ last.op = "paint"
      /\ last.res = "run"
      /\ last'.op = "raf"
      /\ Quiescent')
       => hl' = last.arg[1]]_vars

\* the step ran the function updateStats wraps, at once or from its timer
StatsRan ==
  \/ last'.op = "stats-timer"
  \/ last'.op = "paint" /\ tStats.since > 0 /\ tStats'.since = 0

\* C22: for every Selection up to maxSelectionSize, including those larger
\* than the stats processing cap, calculateStats reports cells = |Selection|,
\* rows = the number of distinct row indices in Selection and cols = the
\* number of distinct column indices in Selection.
C22_StatsCardinalitiesExact ==
  [][(StatsRan /\ selection' # <<>>)
       => LET stats == calculateStats(selection', scope')
          IN  /\ stats.cells = Cardinality(Range(selection'))
              /\ stats.rows = Cardinality({k[1] : k \in Range(selection')})
              /\ stats.cols = Cardinality({k[2] : k \in Range(selection')})]_vars

\* a text split at every occurrence of a separator
RECURSIVE Split(_, _)
Split(text, sep) ==
  IF \A i \in 1..Len(text) : text[i] # sep THEN <<text>>
  ELSE LET i == CHOOSE j \in 1..Len(text) :
                  text[j] = sep /\ \A k \in 1..(j - 1) : text[k] # sep
       IN  <<SubSeq(text, 1, i - 1)>> \o Split(SubSeq(text, i + 1, Len(text)), sep)

\* the n-th smallest member of a set of numbers
Nth(S, n) == CHOOSE x \in S : Cardinality({y \in S : y < x}) = n - 1

\* the rows and, for a row, the columns the Selection holds
SelRows(sel) == {k[1] : k \in Range(sel)}
SelCols(sel, r) == {k[2] : k \in {x \in Range(sel) : x[1] = r}}

\* the header policy of the copySelection step just taken, resolved
CopyPolicy(l, sc, sel) == ShouldIncludeHeaders(sc, sel, l.arg[1])

\* the rows of the Selection that the policy includes
RowsToExport(sc, sel, inc) ==
  {r \in SelRows(sel) : inc \/ ~IsHeaderRowAt(sc, r)}

\* every coordinate of an exported row resolves to a cell
ExportResolves(sc, sel, inc) ==
  \A k \in Range(sel) :
    k[1] \in RowsToExport(sc, sel, inc) => getCell(sc, k[1], k[2]) # Absent

\* no exported cell holds a tab or a line break in its text
ExportPlain(sc, sel, inc) ==
  \A k \in Range(sel) :
    k[1] \in RowsToExport(sc, sel, inc)
      => {TAB, NL} \cap Range(TextOf(getCell(sc, k[1], k[2]))) = {}

\* the text, split into lines and fields, holds for the n-th exported row in
\* ascending order one field per selected column in ascending order, with
\* the text of that cell
LinesAndFieldsOf(out, sc, sel, inc) ==
  LET rs == RowsToExport(sc, sel, inc)
      lines == Split(out, NL)
  IN  IF rs = {} THEN out = <<>>
      ELSE /\ Len(lines) = Cardinality(rs)
           /\ \A n \in 1..Len(lines) :
                LET r == Nth(rs, n)
                    fields == Split(lines[n], TAB)
                IN  /\ Len(fields) = Cardinality(SelCols(sel, r))
                    /\ \A j \in 1..Len(fields) :
                         fields[j] =
                           getCellText(getCell(sc, r, Nth(SelCols(sel, r), j)))

\* C23: the output of format has one line per included selected row in
\* ascending row index, and within each line one tab-separated field per
\* selected column of that row in ascending column index, whatever the
\* order in which the coordinates were inserted into Selection.  Checked for
\* the selections whose exported cells resolve and hold plain text.
C23_LinesAndFieldsAscending ==
  [][(/\ last'.op = "copySelection"
      /\ last'.res = "ok"
      /\ ExportPlain(scope, selection, CopyPolicy(last', scope, selection)))
       => LinesAndFieldsOf(clipboard', scope, selection,
                           CopyPolicy(last', scope, selection))]_vars

\* C23 witness: a Selection whose coordinates were inserted in descending
\* order has been exported as two lines of two fields.
C23_TwoLinesOfTwoFields ==
  /\ last.op = "copySelection"
  /\ last.res = "ok"
  /\ Len(selection) = 4
  /\ selection[1][1] > selection[4][1]
  /\ selection[1][2] > selection[2][2]
  /\ Len(Split(clipboard, NL)) = 2
  /\ \A n \in 1..2 : Len(Split(Split(clipboard, NL)[n], TAB)) = 2

\* some coordinate of the Selection lies in a header row
SelectsHeader(sc, sel) == \E k \in Range(sel) : IsHeaderRowAt(sc, k[1])

\* whether header rows are exported under a policy: never ("false"), always
\* ("true"), or inferred ("null"): exactly when a header row is selected
PolicyIncludes(policy, sc, sel) ==
  \/ policy = "true"
  \/ policy = "null" /\ SelectsHeader(sc, sel)

\* C24: header-inclusion policy of the export.  Under "never" no line of the
\* output comes from a header row, under "always" every selected row gives
\* a line, and under the inferred policy header rows are included exactly
\* when the Selection holds a coordinate in a header row: the lines are
\* those of the rows the policy includes, and of no other row.
C24_HeaderPolicy ==
  [][(/\ last'.op = "copySelection"
      /\ last'.res = "ok"
      /\ ExportPlain(scope, selection,
                     PolicyIncludes(last'.arg[1], scope, selection)))
       => LinesAndFieldsOf(clipboard', scope, selection,
                           PolicyIncludes(last'.arg[1], scope, selection))]_vars

\* C24 witness: a Selection of a header row and a data row has been exported
\* under "never", giving the line of the data row only.
C24_HeaderRowLeftOut ==
  /\ last.op = "copySelection"
  /\ last.res = "ok"
  /\ last.arg[1] = "false"
  /\ SelectsHeader(scope, selection)
  /\ Cardinality(SelRows(selection)) = 2
  /\ Len(Split(clipboard, NL)) = 1
  /\ clipboard # <<>>

\* the Selection is a rectangle: every selected row crossed with every
\* selected column
Rectangular(sel) ==
  \A r \in SelRows(sel) : \A k \in Range(sel) : <<r, k[2]>> \in Range(sel)

\* C25: round trip.  For a rectangular Selection all of whose coordinates
\* resolve to cells, splitting the exported text on line breaks and then on
\* tabs recovers, row by row and column by column, exactly the text that
\* the lookup of each coordinate returns, whatever text the cells hold.
C25_RoundTrip ==
  [][(/\ last'.op = "copySelection"
      /\ last'.res = "ok"
      /\ Rectangular(selection)
      /\ ExportResolves(scope, selection, TRUE))
       => LinesAndFieldsOf(clipboard', scope, selection,
                           CopyPolicy(last', scope, selection))]_vars

\* the coordinates of the Selection that resolve to a cell
Resolving(sc, sel) ==
  SelectSeq(sel, LAMBDA k : getCell(sc, k[1], k[2]) # Absent)

\* C26: a coordinate of Selection that does not resolve to a cell is skipped
\* by the export without a fault: copySelection on a Selection holding such
\* a coordinate does not throw, writes the text of the remaining cells, and
\* leaves the coordinate in Selection.
C26_UnresolvedSkipped ==
  [][(/\ last'.op = "copySelection"
      /\ Resolving(scope, selection) # selection)
       => /\ last'.res # "threw"
          /\ clipboard' = formatAsTSV(scope, Resolving(scope, selection),
                                      CopyPolicy(last', scope, selection))
          /\ selection' = selection]_vars

\* (r, c) lies inside the grid of a scope
InGrid(sc, r, c) ==
  /\ r >= 0 /\ r < Len(getRows(sc))
  /\ c >= 0 /\ c < CellCount(getRows(sc)[r + 1])

\* C27: the default adapter's getCell(scope, row, col) returns absent for
\* every (row, col) outside the grid, that is whenever row is not in
\* [0, rowCount) or col is not in [0, cellCount(row)), negative indices
\* included.
C27_OutsideGridIsAbsent ==
  (/\ last.op = "getCell"
   /\ ~InGrid(scope, last.arg[1], last.arg[2]))
    => last.arg[3] = Absent

\* a pointer-up arrives while a drag from one cell to another is in progress
\* on a non-empty Selection
EndsDrag ==
  /\ last'.op = "mouseup"
  /\ enabled /\ dragging
  /\ <<startRow, startCol>> # <<currentRow, currentCol>>
  /\ selection # <<>>

\* C28: auto-copy.  Every pointer-up that ends a drag with start # current
\* and a non-empty Selection writes the clipboard, with the text format
\* produces for the Selection at that moment (under either header policy);
\* a pointer-move writes nothing.
C28_PointerUpCopies ==
  [][/\ EndsDrag
         => /\ last'.res # "threw"
            /\ \E inc \in BOOLEAN :
                 clipboard' = formatAsTSV(scope, selection, inc)
     /\ last'.op \in {"mousemove", "mousemove-timer"}
         => clipboard' = clipboard]_vars

\* an arrow key arrives in keyboard-navigation mode
ArrowInKeyboardMode ==
  /\ last'.op = "keydown"
  /\ last'.arg[1] \in Arrows
  /\ keyboardMode

\* C29: in keyboard-navigation mode (revisions 1.1.0 and 1.0.2), after every
\* arrow-key event the cursor row lies in [0, rowCount - 1] and the cursor
\* column is >= 0, the anchor is unchanged, and Selection equals exactly
\* rectangle(anchor, cursor).
C29_ArrowKeepsCursorInGrid ==
  [][ArrowInKeyboardMode
       => /\ currentRow' \in 0..(Len(ScopeRows(scope')) - 1)
          /\ currentCol' >= 0
          /\ <<startRow', startCol'>> = <<startRow, startCol>>
          /\ Range(selection') =
               Rect(startRow', startCol', currentRow', currentCol')]_vars

\* C30: DragState and KeyboardModeState are mutually exclusive: in no
\* reachable state of revision 1.1.0 are dragging and keyboardMode both
\* true.
C30_DragExcludesKeyboardMode ==
  revision = "1.1.0" => ~(dragging /\ keyboardMode)

\* a key-down of revision 1.1.0 with key k, and whether it is the toggle
KeyV110(k) ==
  /\ revision = "1.1.0"
  /\ last'.op = "keydown"
  /\ last'.arg[1] = k

\* keyboard mode was entered: Selection is exactly the anchor cell
EnteredAtAnchor ==
  /\ keyboardMode'
  /\ selection' = <<<<startRow', startCol'>>>>

\* what Escape and the toggle back to Inactive do in revision 1.1.0
EscapeAndToggleOff ==
  /\ (KeyV110("k") /\ last'.ext /\ keyboardMode)
       => ~keyboardMode' /\ selection' = <<>>
  /\ (KeyV110("Escape") /\ keyboardMode)
       => ~keyboardMode' /\ selection' = selection
  /\ (KeyV110("Escape") /\ ~keyboardMode)
       => ~keyboardMode' /\ selection' = <<>>

\* C31 as stated: keyboard mode of revision 1.1.0 is a two-state machine.
\* The toggle command flips it; entering Active sets Selection to exactly
\* the anchor cell, toggling back to Inactive clears Selection, Escape while
\* Active leaves keyboard mode and keeps Selection, Escape while Inactive
\* clears Selection.
C31_ToggleAlwaysFlips ==
  [][/\ (KeyV110("k") /\ last'.ext /\ ~keyboardMode) => EnteredAtAnchor
     /\ EscapeAndToggleOff]_vars

\* C31: keyboard mode of revision 1.1.0 is a two-state machine.  The toggle
\* command flips it, except that it stays Inactive, with Selection
\* unchanged, when no cell holds the focus and no cell is visible; entering
\* Active sets Selection to exactly the anchor cell, toggling back to
\* Inactive clears Selection, Escape while Active leaves keyboard mode and
\* keeps Selection, Escape while Inactive clears Selection.
C31_KeyboardModeMachine ==
  [][/\ (KeyV110("k") /\ last'.ext /\ ~keyboardMode)
          => IF last'.arg[3] = Hidden
             THEN ~keyboardMode' /\ selection' = selection
             ELSE EnteredAtAnchor
     /\ EscapeAndToggleOff]_vars

\* C31 witness: Escape has left keyboard mode with the Selection that the
\* arrow keys had grown to more than the anchor cell.
C31_EscapeKeptSelection ==
  /\ revision = "1.1.0"
  /\ last.op = "keydown"
  /\ last.arg[1] = "Escape"
  /\ last.arg[2]
  /\ ~keyboardMode
  /\ Len(selection) > 1

\* the adapter the priority order names for a set of markers
ByPriority(markers) ==
  IF "virtualized" \in markers THEN "reactVirtualized"
  ELSE IF "ag" \in markers THEN "agGrid"
  ELSE IF "rt" \in markers THEN "reactTable"
  ELSE "default"

\* C32: the resolver picks the adapter by priority, first match wins: for
\* every combination of structural markers on a scope it chooses the
\* virtualized-table adapter if the virtualized marker is present, otherwise
\* the AG-Grid adapter if its marker is present, otherwise the React-Table
\* adapter if its marker is present, otherwise the default adapter.
C32_AdapterByPriority ==
  last.op = "setAdapter" => last.arg[2] = ByPriority(last.arg[1])

\* C33: every coordinate stored in Selection has row >= 0 and col >= 0, for
\* every pointer-down and drag update over any element matched by the cell
\* selector, a cell whose row is not in the row list of the active scope
\* included.
C33_CoordinatesNonNegative ==
  \A k \in Range(selection) : k[1] >= 0 /\ k[2] >= 0

\* the wrapped function of the throttle has just run
Executed(t) == ~t.sched /\ t.idle = 0

MoveDeliveredOverCell ==
  /\ last.op = "mousemove" /\ last.arg # <<>>
  /\ Len(last.arg[1]) = 3 /\ ClosestScope(last.arg[1]) = scope
  /\ enabled /\ dragging
  /\ startRow >= 0 /\ startCol >= 0

\* C35: no pointer-move is lost by the mouse-move throttle: when a drag
\* ends, its current coordinate is the cell of the most recent pointer-move
\* delivered over a cell during that drag and, without the extend modifier,
\* Selection is the rectangle from the start to that cell.
C35_LastMoveWins ==
  [][(MoveDeliveredOverCell /\ last'.op = "mouseup")
       => /\ currentRow' = getRowIndex(last.arg[1], getRows(scope))
          /\ currentCol' = getColumnIndex(last.arg[1])
          /\ Range(selection')
               = Rect(startRow', startCol', currentRow', currentCol')]_vars

\* C36: a pointer-move captured by the mouse-move throttle before a drag
\* started never changes that drag: when the trailing timer fires right
\* after the pointer-down that started a new drag, Selection and the
\* current coordinate of the new drag are unchanged.
C36_StaleMoveIgnored ==
  [][(last.op = "mousedown" /\ dragging /\ enabled
      /\ last'.op = "mousemove-timer")
       => /\ selection' = selection
          /\ <<currentRow', currentCol'>> = <<currentRow, currentCol>>]_vars

\* a pointer-up is about to end a single-cell gesture
EndsSingleCell ==
  /\ last'.op = "mouseup"
  /\ enabled /\ dragging
  /\ <<startRow, startCol>> = <<currentRow, currentCol>>

\* C37: when a pointer-up ends a drag whose start and current coordinates
\* are equal, the text written to the clipboard is the text of the cell at
\* (startRow, startCol), wherever the pointer is released.
C37_SingleCellCopiesStartCell ==
  [][(EndsSingleCell /\ clipboard' # clipboard)
       => clipboard' = TextOf(getCell(scope, startRow, startCol))]_vars

\* C38: a single-cell gesture whose pointer-up lands outside every cell
\* completes without a fault: no exception is raised, errorCount is
\* unchanged and the clipboard is not written.
C38_ReleaseOutsideIsQuiet ==
  [][(EndsSingleCell /\ getCell(scope, startRow, startCol) # Absent
      /\ startRow >= 0 /\ startCol >= 0 /\ last'.arg = <<Outside>>)
       => /\ last'.res # "threw"
          /\ errorCount' = errorCount
          /\ clipboard' = clipboard]_vars

\* the coordinate of a cell in the table it lies in
CoordinateOf(el) ==
  <<getRowIndex(el, getRows(ClosestScope(el))), getColumnIndex(el)>>

\* C39: when a new gesture starts in a different scope than the previous
\* one, then after the gesture and all pending callbacks have completed no
\* cell of the previous scope remains highlighted unless its coordinate is
\* in Selection.  A highlighted cell outside the active scope is a cell of a
\* previous scope.
C39_PreviousScopeUnhighlighted ==
  (/\ startRow # NULL
   /\ ~dragging
   /\ Quiescent
   /\ paintQueue = <<>>)
    => \A el \in hl :
         InScope(el, scope) \/ CoordinateOf(el) \in Range(selection)

\* C40: in the keyboard-navigation mode of revision 1.1.0, an arrow key
\* that moves the cursor to a coordinate that resolves to no cell degrades
\* gracefully: the key handler raises no exception and the coordinate is
\* kept in Selection.  Stated for the modes entered on a cell of a row.
C40_ArrowOffGridIsGraceful ==
  [][(/\ revision = "1.1.0"
      /\ ArrowInKeyboardMode
      /\ startRow >= 0 /\ startCol >= 0
      /\ getCellV110(scope', currentRow', currentCol') = Absent)
       => /\ last'.res # "threw"
          /\ <<currentRow', currentCol'>> \in Range(selection')]_vars

====
